---- MODULE Spec2Model ----
(***************************************************************************)
(* xbootsplash: frame compression codec (generate_splash.c) and the        *)
(* decoder / playback engine (splash_anim_delta.c, splash_anim_drm.c).     *)
(*                                                                         *)
(* C arrays are 0-based; a C array is a TLA+ sequence read with At(s, i).  *)
(* Pixels are uint16_t values 0..65535, bytes are uint8_t values 0..255.   *)
(***************************************************************************)
EXTENDS Integers, Sequences, FiniteSets, TLC

VARIABLES
    \* ---- codec harness: one encoder applied to one input, then decoded
    op,                 \* which encoder/decoder pair is exercised
    cpc,                \* "input" -> "encoded" -> "decoded"
    curr,               \* current frame / image (pixels)
    prev,               \* previous frame, also the decoder's initial buffer
    out,                \* bytes written by the encoder
    out_len,            \* value returned by the encoder
    palette,            \* palette filled by build_palette
    num_colors,         \* value returned by build_palette
    indices,            \* index stream filled by build_palette
    dec,                \* pixel buffer after the decoder ran
    \* ---- build configuration (frames_delta.h) and display sink
    sink,               \* "fb" (splash_anim_delta.c) or "drm" (splash_anim_drm.c)
    DISPLAY_MODE,       \* 0 animation on solid background, 3 static image
    LOOP,               \* 1 loop, 0 stay on the last frame
    NFRAMES,            \* number of frames
    COMPRESS_METHOD,    \* 0 rle_xor, 1 rle_direct, 2 sparse, 3 raw, 5 palette
    src_frames,         \* the source images handed to the encoding tool
    frames,             \* frame table: the compressed units
    frame_sizes,        \* frame table: their lengths
    bits_per_pixel,     \* depth of the destination surface
    pos_x,              \* x of main: column of the frame's left edge
    pos_y,              \* y of main: row of the frame's top edge
    frame_pixels,       \* generator: pixels, the number of pixels of one frame
    test_sizes,         \* generator: encoded sizes measured by the auto mode
    \* ---- playback engine (main)
    pc,                 \* position of main
    frame_idx,          \* frame cursor
    frame_buffer,       \* the live pixel buffer
    terminate_requested,\* flag set by signal_handler
    fbmem,              \* bytes of the destination surface
    fb_mapped,          \* the surface mapping is held
    sleep_req,          \* req of the nanosleep call in progress
    \* ---- history of the run
    ticks,              \* completed loop iterations, modulo NFRAMES
    last_presented,     \* cursor value of the latest composite, -1 before it
    blits_after_term,   \* composites since the flag was set
    decodes_after_term, \* unit decodes since the flag was set
    \* ---- kernel command line and exit
    cmdline,            \* the text of /proc/cmdline
    exit_status,        \* value returned by main, -1 while it runs
    \* ---- pacing
    elapsed,            \* elapsed of the current tick, 0 before it is measured
    sleep_ms_arg,       \* ms of the latest sleep_ms call
    slept,              \* time slept so far in the latest sleep_ms call
    \* ---- encoding tool (main of generate_splash.c)
    argv,               \* command line of the tool, argv[0] the program name
    stdout,             \* what was written to the standard output stream
    stderr,             \* what was written to the diagnostic stream
    \* ---- resources of the playback engine
    held,               \* mappings and descriptors the process holds
    mmap_ret,           \* value mmap returned for each pointer, 0 before the call
    \* ---- the two engines side by side
    dec_drm,            \* pixel buffer after the DRM engine's decoder ran
    \* ---- surface layout and background image
    rgb_off,            \* <<r_off, g_off, b_off>> of main
    bg_buffer           \* the decoded background image

cvars == <<op, cpc, curr, prev, out, out_len, palette, num_colors, indices, dec>>

bvars == <<sink, DISPLAY_MODE, LOOP, NFRAMES, COMPRESS_METHOD, src_frames,
           frames, frame_sizes, bits_per_pixel, pos_x, pos_y,
           frame_pixels, test_sizes>>

evars == <<pc, frame_idx, frame_buffer, terminate_requested, fbmem, fb_mapped,
           sleep_req>>

hvars == <<ticks, last_presented, blits_after_term, decodes_after_term>>

rvars == <<held, mmap_ret>>

xvars == <<dec_drm, rgb_off, bg_buffer>>

gvars == <<argv, stdout, stderr, rvars, xvars>>

kvars == <<cmdline, exit_status, gvars>>

svars == <<elapsed, sleep_ms_arg, slept>>

vars == <<cvars, bvars, evars, hvars, kvars, svars>>

\* the encoding tool has not run
\* nothing acquired
NothingHeld ==
    /\ held = {}
    /\ mmap_ret = [p \in {"frame_buffer", "bg_buffer", "fbmem"} |-> 0]

\* the side-by-side harness has not run
SidesIdle ==
    /\ dec_drm = <<>>
    /\ rgb_off = <<16, 8, 0>>
    /\ bg_buffer = <<>>

ToolsIdle ==
    /\ argv = <<>> /\ stdout = <<>> /\ stderr = <<>>
    /\ NothingHeld
    /\ SidesIdle

----------------------------------------------------------------------------
(* Bounds of the model *)

MaxLen == 3             \* short frames: every frame of 1..MaxLen pixels
LongLen == 130          \* long frames: run-structured frames of this length

PixelVals == {0, 1, 256}            \* pixel values of the short frames
LongVals == {0, 2016}               \* pixel values of the long frames

MaxFrames == 3          \* animations of 1..MaxFrames frames
XRES == 3               \* surface width in pixels
YRES == 2               \* surface height in pixels
ScreenBytes == {170}                \* surface contents before the engine starts
ElapsedVals == {1, 33, 40}       \* measured work time of one tick, ms

----------------------------------------------------------------------------
(* C integer helpers *)

At(s, i) == s[i + 1]

\* bitwise operators on operands below 2^n, the low and the high half apart
RECURSIVE XorBits(_, _, _)
XorBits(a, b, n) ==
    IF a = 0 THEN b
    ELSE IF b = 0 THEN a
    ELSE IF n = 1 THEN ((a % 2) + (b % 2)) % 2
    ELSE LET h == n \div 2
             m == 2 ^ h
         IN  XorBits(a % m, b % m, h) + m * XorBits(a \div m, b \div m, n - h)

RECURSIVE OrBits(_, _, _)
OrBits(a, b, n) ==
    IF a = 0 THEN b
    ELSE IF b = 0 THEN a
    ELSE IF n = 1 THEN 1
    ELSE LET h == n \div 2
             m == 2 ^ h
         IN  OrBits(a % m, b % m, h) + m * OrBits(a \div m, b \div m, n - h)

RECURSIVE AndBits(_, _, _)
AndBits(a, b, n) ==
    IF a = 0 \/ b = 0 THEN 0
    ELSE IF n = 1 THEN 1
    ELSE LET h == n \div 2
             m == 2 ^ h
         IN  AndBits(a % m, b % m, h) + m * AndBits(a \div m, b \div m, n - h)

\* the operands of the operators below are evaluated once, then combined
\* uint16_t a ^ b
Xor16(a, b) == CHOOSE r \in {XorBits(x, y, 16) : x \in {a}, y \in {b}} : TRUE
\* (uint8_t)(a | b)
Or8(a, b) == CHOOSE r \in {OrBits(x % 256, y % 256, 8) : x \in {a}, y \in {b}} : TRUE
\* a & b on 32-bit operands
And32(a, b) == CHOOSE r \in {AndBits(x, y, 32) : x \in {a}, y \in {b}} : TRUE
\* a | b on 32-bit operands
Or32(a, b) == CHOOSE r \in {OrBits(x, y, 32) : x \in {a}, y \in {b}} : TRUE

\* val & 0xFF and (val >> 8) & 0xFF
LoByte(v) == v % 256
HiByte(v) == (v \div 256) % 256
\* lo | (hi << 8)
Word16(lo, hi) == lo + 256 * hi

----------------------------------------------------------------------------
(* generate_splash.c: compress_rle_xor *)

RLE_XOR_MAX_SKIP == 128
RLE_XOR_MAX_LITERAL == 127

\* number of iterations of a C loop that runs at most limit times; cont is
\* the set of iteration numbers k (from 0) at which the loop condition holds
\* and the body does not break
LoopCount(limit, cont) ==
    CHOOSE k \in 0..limit :
        /\ \A j \in 0..(k - 1) : j \in cont
        /\ (k = limit \/ k \notin cont)

\* XorZeroRun with the skip run capped one too high
XorZeroRun_cap129(cur, prv, count, i) ==
    LET Cont(zeros) ==
            /\ i + zeros < count /\ zeros < RLE_XOR_MAX_SKIP + 1
            /\ Xor16(At(cur, i + zeros), At(prv, i + zeros)) = 0
    IN  LoopCount(RLE_XOR_MAX_SKIP + 1, {it \in 0..((RLE_XOR_MAX_SKIP + 1) - 1) : Cont(it)})

\* the inner while loop counting unchanged positions from i
XorZeroRun(cur, prv, count, i) ==
    LET Cont(zeros) ==
            /\ i + zeros < count /\ zeros < RLE_XOR_MAX_SKIP
            /\ Xor16(At(cur, i + zeros), At(prv, i + zeros)) = 0
    IN  LoopCount(RLE_XOR_MAX_SKIP, {it \in 0..((RLE_XOR_MAX_SKIP) - 1) : Cont(it)})

\* XorNonzeroRun with the literal run capped one too high
XorNonzeroRun_cap128(cur, prv, count, i) ==
    LET Cont(nonzeros) ==
            /\ i + nonzeros < count /\ nonzeros < RLE_XOR_MAX_LITERAL + 1
            /\ Xor16(At(cur, i + nonzeros), At(prv, i + nonzeros)) # 0
    IN  LoopCount(RLE_XOR_MAX_LITERAL + 1,
                  {it \in 0..((RLE_XOR_MAX_LITERAL + 1) - 1) : Cont(it)})

\* the inner while loop counting changed positions from i
XorNonzeroRun(cur, prv, count, i) ==
    LET Cont(nonzeros) ==
            /\ i + nonzeros < count /\ nonzeros < RLE_XOR_MAX_LITERAL
            /\ Xor16(At(cur, i + nonzeros), At(prv, i + nonzeros)) # 0
    IN  LoopCount(RLE_XOR_MAX_LITERAL, {it \in 0..((RLE_XOR_MAX_LITERAL) - 1) : Cont(it)})

\* the for loop writing the XOR values of positions i .. i+nonzeros-1
XorLiteralBytes(cur, prv, i, nonzeros) ==
    [k \in 1..(2 * nonzeros) |->
        LET j == (k - 1) \div 2
            delta == Xor16(At(cur, i + j), At(prv, i + j))
        IN  IF k % 2 = 1 THEN LoByte(delta) ELSE HiByte(delta)]

\* RleXorLoop closing every literal after two values
RECURSIVE RleXorLoop_lit2(_, _, _, _, _)
RleXorLoop_lit2(cur, prv, count, i, o) ==
    IF i >= count THEN Append(o, 0)
    ELSE
      LET zeros == XorZeroRun(cur, prv, count, i)
          o1 == IF zeros > 0 THEN Append(o, Or8(128, zeros - 1)) ELSE o
          i1 == IF zeros > 0 THEN i + zeros ELSE i
          run == XorNonzeroRun(cur, prv, count, i1)
          nonzeros == IF run > 2 THEN 2 ELSE run
          o2 == IF nonzeros > 0
                THEN Append(o1, nonzeros % 256)
                     \o XorLiteralBytes(cur, prv, i1, nonzeros)
                ELSE o1
          i2 == IF nonzeros > 0 THEN i1 + nonzeros ELSE i1
      IN  RleXorLoop_lit2(cur, prv, count, i2, o2)

RECURSIVE RleXorLoop(_, _, _, _, _)
RleXorLoop(cur, prv, count, i, o) ==
    IF i >= count THEN Append(o, 0)
    ELSE
      LET zeros == XorZeroRun(cur, prv, count, i)
          o1 == IF zeros > 0 THEN Append(o, Or8(128, zeros - 1)) ELSE o
          i1 == IF zeros > 0 THEN i + zeros ELSE i
          nonzeros == XorNonzeroRun(cur, prv, count, i1)
          o2 == IF nonzeros > 0
                THEN Append(o1, nonzeros % 256)
                     \o XorLiteralBytes(cur, prv, i1, nonzeros)
                ELSE o1
          i2 == IF nonzeros > 0 THEN i1 + nonzeros ELSE i1
      IN  RleXorLoop(cur, prv, count, i2, o2)

compress_rle_xor(cur, prv, count) == RleXorLoop(cur, prv, count, 0, <<>>)

----------------------------------------------------------------------------
(* generate_delta_v2.c: compute_delta *)

\* the first inner loop: it leaves at a changed pixel, at the end of the
\* frame, or when zeros has reached 128 after the increment
DeltaZeroRun(cur, prv, count, i) ==
    LET Cont(zeros) ==
            /\ i + zeros < count
            /\ Xor16(At(cur, i + zeros), At(prv, i + zeros)) = 0
            /\ ~(zeros >= RLE_XOR_MAX_SKIP)
    IN  LoopCount(RLE_XOR_MAX_SKIP, {it \in 0..(RLE_XOR_MAX_SKIP - 1) : Cont(it)})

\* the second inner loop, leaving when nonzeros has reached 127
DeltaNonzeroRun(cur, prv, count, i) ==
    LET Cont(nonzeros) ==
            /\ i + nonzeros < count
            /\ Xor16(At(cur, i + nonzeros), At(prv, i + nonzeros)) # 0
            /\ ~(nonzeros >= RLE_XOR_MAX_LITERAL)
    IN  LoopCount(RLE_XOR_MAX_LITERAL, {it \in 0..(RLE_XOR_MAX_LITERAL - 1) : Cont(it)})

RECURSIVE ComputeDeltaLoop(_, _, _, _, _)
ComputeDeltaLoop(cur, prv, count, i, o) ==
    IF i >= count THEN Append(o, 0)
    ELSE
      LET zeros == DeltaZeroRun(cur, prv, count, i)
          o1 == IF zeros > 0 THEN Append(o, Or8(128, zeros - 1)) ELSE o
          i1 == IF zeros > 0 THEN i + zeros ELSE i
          nonzeros == DeltaNonzeroRun(cur, prv, count, i1)
          o2 == IF nonzeros > 0
                THEN Append(o1, nonzeros % 256)
                     \o XorLiteralBytes(cur, prv, i1, nonzeros)
                ELSE o1
          i2 == IF nonzeros > 0 THEN i1 + nonzeros ELSE i1
      IN  ComputeDeltaLoop(cur, prv, count, i2, o2)

\* compute_delta on frames of count = FRAME_PIXELS pixels
compute_delta(cur, prv, count) == ComputeDeltaLoop(cur, prv, count, 0, <<>>)

----------------------------------------------------------------------------
(* splash_anim_delta.c: apply_delta_rle_xor *)

\* FbXorLiteral with the two-byte check one byte late
FbXorLiteral_late(delta, delta_size, max_pixels, count, st) ==
    LET Cont(i) ==
            /\ i < count /\ st.pixel_idx + i < max_pixels
            /\ ~(st.pos + 2 * i + 1 > delta_size)
        n == LoopCount(count, {it \in 0..((count) - 1) : Cont(it)})
    IN  [pos |-> st.pos + 2 * n,
         pixel_idx |-> st.pixel_idx + n,
         fb |-> [k \in 1..Len(st.fb) |->
                    IF st.pixel_idx < k /\ k <= st.pixel_idx + n
                    THEN LET p == st.pos + 2 * (k - 1 - st.pixel_idx)
                         IN  Xor16(st.fb[k], Word16(At(delta, p), At(delta, p + 1)))
                    ELSE st.fb[k]]]

\* the literal branch's for loop from decoder state st = [pos, pixel_idx, fb]:
\* it runs while i < count, pixel_idx < max_pixels and two bytes are left
FbXorLiteral(delta, delta_size, max_pixels, count, st) ==
    LET Cont(i) ==
            /\ i < count /\ st.pixel_idx + i < max_pixels
            /\ ~(st.pos + 2 * i + 1 >= delta_size)
        n == LoopCount(count, {it \in 0..((count) - 1) : Cont(it)})
    IN  [pos |-> st.pos + 2 * n,
         pixel_idx |-> st.pixel_idx + n,
         fb |-> [k \in 1..Len(st.fb) |->
                    IF st.pixel_idx < k /\ k <= st.pixel_idx + n
                    THEN LET p == st.pos + 2 * (k - 1 - st.pixel_idx)
                         IN  Xor16(st.fb[k], Word16(At(delta, p), At(delta, p + 1)))
                    ELSE st.fb[k]]]

RECURSIVE FbXorLoop(_, _, _, _)
FbXorLoop(delta, delta_size, max_pixels, st0) ==
    LET Step(st) ==
        IF ~(st.pos < delta_size) THEN st
        ELSE
          LET cmd == At(delta, st.pos)
              s1 == [st EXCEPT !.pos = st.pos + 1]
          IN  IF cmd = 0 THEN s1
              ELSE IF And32(cmd, 128) # 0
              THEN LET skip == And32(cmd, 127) + 1
                       p == s1.pixel_idx + skip
                   IN  FbXorLoop(delta, delta_size, max_pixels,
                           [s1 EXCEPT !.pixel_idx =
                                IF p > max_pixels THEN max_pixels ELSE p])
              ELSE FbXorLoop(delta, delta_size, max_pixels,
                       FbXorLiteral(delta, delta_size, max_pixels, cmd, s1))
    IN  CHOOSE r \in {Step(st) : st \in {st0}} : TRUE

apply_delta_rle_xor(delta, delta_size, max_pixels, fb) ==
    FbXorLoop(delta, delta_size, max_pixels,
              [pos |-> 0, pixel_idx |-> 0, fb |-> fb]).fb

----------------------------------------------------------------------------
(* generate_splash.c: compress_rle_direct *)

RLE_DIRECT_MAX_RUN == 127
RLE_DIRECT_MIN_RUN == 3

\* DirectRun with the repeat run capped one too high
DirectRun_cap128(pixels, count, i) ==
    LET val == At(pixels, i)
        Cont(k) ==
            /\ i + (1 + k) < count /\ (1 + k) < RLE_DIRECT_MAX_RUN + 1
            /\ ~(At(pixels, i + 1 + k) # val)
    IN  1 + LoopCount(RLE_DIRECT_MAX_RUN, {it \in 0..((RLE_DIRECT_MAX_RUN) - 1) : Cont(it)})

\* the run-counting while loop: run starts at 1
DirectRun(pixels, count, i) ==
    LET val == At(pixels, i)
        Cont(k) ==
            /\ i + (1 + k) < count /\ (1 + k) < RLE_DIRECT_MAX_RUN
            /\ ~(At(pixels, i + 1 + k) # val)
    IN  1 + LoopCount(RLE_DIRECT_MAX_RUN - 1, {it \in 0..((RLE_DIRECT_MAX_RUN - 1) - 1) : Cont(it)})

\* DirectLit running on into a run of three equal pixels
DirectLit_greedy(pixels, count, i) ==
    LET Cont(lit) == i + lit < count /\ lit < RLE_DIRECT_MAX_RUN
        lit0 == LoopCount(RLE_DIRECT_MAX_RUN, {it \in 0..((RLE_DIRECT_MAX_RUN) - 1) : Cont(it)})
    IN  IF lit0 = 0 THEN 1 ELSE lit0

\* the literal-counting while loop, closed where three equal pixels begin
DirectLit(pixels, count, i) ==
    LET Cont(lit) ==
            /\ i + lit < count /\ lit < RLE_DIRECT_MAX_RUN
            /\ ~(/\ i + lit + 2 < count
                 /\ At(pixels, i + lit) = At(pixels, i + lit + 1)
                 /\ At(pixels, i + lit + 1) = At(pixels, i + lit + 2))
        lit0 == LoopCount(RLE_DIRECT_MAX_RUN, {it \in 0..((RLE_DIRECT_MAX_RUN) - 1) : Cont(it)})
    IN  IF lit0 = 0 THEN 1 ELSE lit0

\* the for loop writing pixels i .. i+lit-1, low byte first
DirectLiteralBytes(pixels, i, lit) ==
    [k \in 1..(2 * lit) |->
        LET j == (k - 1) \div 2
        IN  IF k % 2 = 1 THEN LoByte(At(pixels, i + j))
                         ELSE HiByte(At(pixels, i + j))]

RECURSIVE RleDirectLoop(_, _, _, _)
RleDirectLoop(pixels, count, i, o) ==
    IF i >= count THEN Append(o, 0)
    ELSE
      LET val == At(pixels, i)
          run == DirectRun(pixels, count, i)
      IN  IF run >= RLE_DIRECT_MIN_RUN
          THEN RleDirectLoop(pixels, count, i + run,
                   o \o <<Or8(128, run), LoByte(val), HiByte(val)>>)
          ELSE LET lit == DirectLit(pixels, count, i)
               IN  RleDirectLoop(pixels, count, i + lit,
                       Append(o, lit % 256) \o DirectLiteralBytes(pixels, i, lit))

compress_rle_direct(pixels, count) == RleDirectLoop(pixels, count, 0, <<>>)

----------------------------------------------------------------------------
(* splash_anim_delta.c: apply_delta_rle_direct *)

\* the repeat branch's for loop: count copies of val, clipped at max_pixels
FbDirectRepeat(max_pixels, count, val, st) ==
    LET Cont(i) == i < count /\ st.pixel_idx + i < max_pixels
        n == LoopCount(count, {it \in 0..((count) - 1) : Cont(it)})
    IN  [st EXCEPT !.pixel_idx = st.pixel_idx + n,
                   !.fb = [k \in 1..Len(st.fb) |->
                              IF st.pixel_idx < k /\ k <= st.pixel_idx + n
                              THEN val ELSE st.fb[k]]]

\* the literal branch's for loop
FbDirectLiteral(delta, delta_size, max_pixels, count, st) ==
    LET Cont(i) ==
            /\ i < count /\ st.pixel_idx + i < max_pixels
            /\ ~(st.pos + 2 * i + 1 >= delta_size)
        n == LoopCount(count, {it \in 0..((count) - 1) : Cont(it)})
    IN  [pos |-> st.pos + 2 * n,
         pixel_idx |-> st.pixel_idx + n,
         fb |-> [k \in 1..Len(st.fb) |->
                    IF st.pixel_idx < k /\ k <= st.pixel_idx + n
                    THEN LET p == st.pos + 2 * (k - 1 - st.pixel_idx)
                         IN  Word16(At(delta, p), At(delta, p + 1))
                    ELSE st.fb[k]]]

RECURSIVE FbDirectLoop(_, _, _, _)
FbDirectLoop(delta, delta_size, max_pixels, st0) ==
    LET Step(st) ==
        IF ~(st.pos < delta_size) THEN st
        ELSE
          LET cmd == At(delta, st.pos)
              s1 == [st EXCEPT !.pos = st.pos + 1]
          IN  IF cmd = 0 THEN s1
              ELSE IF And32(cmd, 128) # 0
              THEN IF s1.pos + 1 >= delta_size THEN s1
                   ELSE LET val == Word16(At(delta, s1.pos), At(delta, s1.pos + 1))
                            s2 == [s1 EXCEPT !.pos = s1.pos + 2]
                        IN  FbDirectLoop(delta, delta_size, max_pixels,
                                FbDirectRepeat(max_pixels, And32(cmd, 127), val, s2))
              ELSE FbDirectLoop(delta, delta_size, max_pixels,
                       FbDirectLiteral(delta, delta_size, max_pixels, cmd, s1))
    IN  CHOOSE r \in {Step(st) : st \in {st0}} : TRUE

apply_delta_rle_direct(delta, delta_size, max_pixels, fb) ==
    FbDirectLoop(delta, delta_size, max_pixels,
                 [pos |-> 0, pixel_idx |-> 0, fb |-> fb]).fb

----------------------------------------------------------------------------
(* generate_splash.c: compress_sparse_xor *)

SPARSE_MAX_COUNT == 65535

\* the positions i with curr[i] ^ prev[i] != 0, in increasing order
SparseChanged(cur, prv, count) ==
    SelectSeq([k \in 1..count |-> k - 1],
              LAMBDA i : Xor16(At(cur, i), At(prv, i)) # 0)

\* compress_sparse_xor accepting one pixel more
compress_sparse_xor_cap65536(cur, prv, count) ==
    IF count > SPARSE_MAX_COUNT + 1 THEN <<>>
    ELSE
      LET pos_seq == SparseChanged(cur, prv, count)
          changed == Len(pos_seq)
      IN  <<LoByte(changed), HiByte(changed)>>
          \o [k \in 1..(4 * changed) |->
                LET i == pos_seq[((k - 1) \div 4) + 1]
                    delta == Xor16(At(cur, i), At(prv, i))
                    b == (k - 1) % 4
                IN  IF b = 0 THEN LoByte(i)
                    ELSE IF b = 1 THEN HiByte(i)
                    ELSE IF b = 2 THEN LoByte(delta)
                    ELSE HiByte(delta)]

compress_sparse_xor(cur, prv, count) ==
    IF count > SPARSE_MAX_COUNT THEN <<>>
    ELSE
      LET pos_seq == SparseChanged(cur, prv, count)
          changed == Len(pos_seq)
      IN  <<LoByte(changed), HiByte(changed)>>
          \o [k \in 1..(4 * changed) |->
                LET i == pos_seq[((k - 1) \div 4) + 1]
                    delta == Xor16(At(cur, i), At(prv, i))
                    b == (k - 1) % 4
                IN  IF b = 0 THEN LoByte(i)
                    ELSE IF b = 1 THEN HiByte(i)
                    ELSE IF b = 2 THEN LoByte(delta)
                    ELSE HiByte(delta)]

----------------------------------------------------------------------------
(* splash_anim_delta.c: apply_delta_sparse_xor *)

\* loop iterations lo .. hi-1 of the for loop (entry i sits at byte 2 + 4*i);
\* the range is halved to keep the evaluation shallow
RECURSIVE FbSparseRange(_, _, _, _, _)
FbSparseRange(delta, max_pixels, lo, hi, fb) ==
    IF hi <= lo THEN fb
    ELSE IF hi = lo + 1
    THEN LET pos == 2 + 4 * lo
             idx == Word16(At(delta, pos), At(delta, pos + 1))
             xor_val == Word16(At(delta, pos + 2), At(delta, pos + 3))
         IN  IF idx < max_pixels
             THEN [fb EXCEPT ![idx + 1] = Xor16(fb[idx + 1], xor_val)]
             ELSE fb
    ELSE LET mid == (lo + hi) \div 2
             left == FbSparseRange(delta, max_pixels, lo, mid, fb)
         IN  IF Len(left) >= 0
             THEN FbSparseRange(delta, max_pixels, mid, hi, left)
             ELSE left

\* apply_delta_sparse_xor with the entry bound off by one (pos + 4 < size)
apply_delta_sparse_xor_bound(delta, delta_size, max_pixels, fb) ==
    IF delta_size < 2 THEN fb
    ELSE
      LET changed == Word16(At(delta, 0), At(delta, 1))
          Cont(i) == i < changed /\ (2 + 4 * i) + 4 < delta_size
          n == LoopCount(changed, {it \in 0..((changed) - 1) : Cont(it)})
      IN  FbSparseRange(delta, max_pixels, 0, n, fb)

apply_delta_sparse_xor(delta, delta_size, max_pixels, fb) ==
    IF delta_size < 2 THEN fb
    ELSE
      LET changed == Word16(At(delta, 0), At(delta, 1))
          Cont(i) == i < changed /\ (2 + 4 * i) + 3 < delta_size
          n == LoopCount(changed, {it \in 0..((changed) - 1) : Cont(it)})
      IN  FbSparseRange(delta, max_pixels, 0, n, fb)

----------------------------------------------------------------------------
(* generate_splash.c: compress_raw_direct; splash_anim_delta.c: apply_delta_raw *)

\* compress_raw_direct writing the high byte first
compress_raw_direct_be(pixels, count) ==
    [k \in 1..(2 * count) |->
        IF k % 2 = 1 THEN HiByte(At(pixels, (k - 1) \div 2))
                     ELSE LoByte(At(pixels, (k - 1) \div 2))]

compress_raw_direct(pixels, count) ==
    [k \in 1..(2 * count) |->
        IF k % 2 = 1 THEN LoByte(At(pixels, (k - 1) \div 2))
                     ELSE HiByte(At(pixels, (k - 1) \div 2))]

apply_delta_raw(raw, size, max_pixels, fb) ==
    LET p0 == size \div 2
        pixels == IF p0 > max_pixels THEN max_pixels ELSE p0
    IN  [k \in 1..Len(fb) |->
            IF k <= pixels
            THEN Word16(At(raw, (k - 1) * 2), At(raw, (k - 1) * 2 + 1))
            ELSE fb[k]]

load_frame_0(raw, size, max_pixels, fb) == apply_delta_raw(raw, size, max_pixels, fb)

----------------------------------------------------------------------------
(* generate_splash.c: build_palette *)

PALETTE_MAX == 256

\* PaletteStep giving the first slot to the pixels beyond a full palette
PaletteStep_first(pixels, i, st) ==
    LET color == At(pixels, i)
        hits == {j \in 0..(st.num_colors - 1) : At(st.palette, j) = color}
        found == IF hits = {} THEN -1
                 ELSE CHOOSE j \in hits : \A h \in hits : j <= h
    IN  IF found >= 0
        THEN [st EXCEPT !.indices = Append(st.indices, found % 256)]
        ELSE IF st.num_colors < PALETTE_MAX
        THEN [palette |-> Append(st.palette, color),
              num_colors |-> st.num_colors + 1,
              indices |-> Append(st.indices, st.num_colors % 256)]
        ELSE [st EXCEPT !.indices = Append(st.indices, 0)]

\* one iteration of the for loop over the pixels;
\* st = [palette, num_colors, indices]
PaletteStep(pixels, i, st) ==
    LET color == At(pixels, i)
        hits == {j \in 0..(st.num_colors - 1) : At(st.palette, j) = color}
        found == IF hits = {} THEN -1
                 ELSE CHOOSE j \in hits : \A h \in hits : j <= h
    IN  IF found >= 0
        THEN [st EXCEPT !.indices = Append(st.indices, found % 256)]
        ELSE IF st.num_colors < PALETTE_MAX
        THEN [palette |-> Append(st.palette, color),
              num_colors |-> st.num_colors + 1,
              indices |-> Append(st.indices, st.num_colors % 256)]
        ELSE [st EXCEPT !.indices = Append(st.indices, 255)]

\* iterations lo .. hi-1 of the for loop, the range halved to keep the
\* evaluation shallow
RECURSIVE PaletteRange(_, _, _, _)
PaletteRange(pixels, lo, hi, st) ==
    IF hi <= lo THEN st
    ELSE IF hi = lo + 1 THEN PaletteStep(pixels, lo, st)
    ELSE LET mid == (lo + hi) \div 2
             left == PaletteRange(pixels, lo, mid, st)
         IN  IF left.num_colors >= 0
             THEN PaletteRange(pixels, mid, hi, left)
             ELSE left

\* build_palette with the for loop starting at the second pixel
build_palette_from1(pixels, count) ==
    PaletteRange(pixels, 1, count,
                 [palette |-> <<>>, num_colors |-> 0, indices |-> <<>>])

build_palette(pixels, count) ==
    PaletteRange(pixels, 0, count,
                 [palette |-> <<>>, num_colors |-> 0, indices |-> <<>>])

----------------------------------------------------------------------------
(* generate_splash.c: compress_lzss *)

LZSS_WINDOW_SIZE == 4096
LZSS_MIN_MATCH == 3
LZSS_MAX_MATCH == 18

ZeroWindow == [w \in 0..(LZSS_WINDOW_SIZE - 1) |-> 0]

\* the while loop comparing the window from win_idx with the input from in_pos
LzssMatchLen(window, data, count, in_pos, win_idx) ==
    LET Cont(len) ==
            /\ len < LZSS_MAX_MATCH /\ in_pos + len < count
            /\ ~(window[(win_idx + len) % LZSS_WINDOW_SIZE] # At(data, in_pos + len))
    IN  LoopCount(LZSS_MAX_MATCH, {it \in 0..((LZSS_MAX_MATCH) - 1) : Cont(it)})

\* the for loop over off = 1 .. max_search: the first offset whose match is
\* the longest one of at least LZSS_MIN_MATCH
LzssBest(window, window_pos, data, count, in_pos) ==
    LET max_search == IF window_pos < LZSS_WINDOW_SIZE
                      THEN window_pos ELSE LZSS_WINDOW_SIZE
        LenAt(off) ==
            LzssMatchLen(window, data, count, in_pos,
                (window_pos - off + LZSS_WINDOW_SIZE) % LZSS_WINDOW_SIZE)
        lens == [off \in 1..max_search |-> LenAt(off)]
        good == {off \in 1..max_search : lens[off] >= LZSS_MIN_MATCH}
    IN  IF good = {} THEN [len |-> 0, off |-> 0]
        ELSE LET off == CHOOSE o \in good :
                            /\ \A q \in good : lens[q] <= lens[o]
                            /\ \A q \in good : (q < o) => lens[q] < lens[o]
             IN  [len |-> lens[off], off |-> off]

\* the for loop advancing the window over n input bytes;
\* st = [in_pos, window, window_pos, flag_byte, items, bit_pos, out]
RECURSIVE LzssAdvance(_, _, _)
LzssAdvance(data, n, st) ==
    IF n = 0 THEN st
    ELSE LzssAdvance(data, n - 1,
            [st EXCEPT !.window = [st.window EXCEPT ![st.window_pos] = At(data, st.in_pos)],
                       !.window_pos = (st.window_pos + 1) % LZSS_WINDOW_SIZE,
                       !.in_pos = st.in_pos + 1])

\* flush of the flag byte and its items once 8 tokens are collected
LzssFlush8(st) ==
    IF st.bit_pos = 8
    THEN [st EXCEPT !.out = Append(st.out, st.flag_byte) \o st.items,
                    !.flag_byte = 0, !.items = <<>>, !.bit_pos = 0]
    ELSE st

RECURSIVE LzssLoop(_, _, _)
LzssLoop(data, count, st) ==
    IF ~(st.in_pos < count)
    THEN IF st.bit_pos > 0 THEN Append(st.out, st.flag_byte) \o st.items
                           ELSE st.out
    ELSE
      LET best == LzssBest(st.window, st.window_pos, data, count, st.in_pos)
          s1 == IF best.len >= LZSS_MIN_MATCH
                THEN LET encoded_len == best.len - LZSS_MIN_MATCH
                         b1 == And32(best.off, 255)
                         b2 == Or8(And32(best.off \div 16, 240), And32(encoded_len, 15))
                     IN  LzssAdvance(data, best.len,
                             [st EXCEPT !.items = st.items \o <<b1, b2>>])
                ELSE LzssAdvance(data, 1,
                         [st EXCEPT !.flag_byte = Or8(st.flag_byte, 2 ^ st.bit_pos),
                                    !.items = Append(st.items, At(data, st.in_pos))])
          s2 == [s1 EXCEPT !.bit_pos = s1.bit_pos + 1]
      IN  LzssLoop(data, count, LzssFlush8(s2))

compress_lzss(data, count) ==
    LzssLoop(data, count,
             [in_pos |-> 0, window |-> ZeroWindow, window_pos |-> 0,
              flag_byte |-> 0, items |-> <<>>, bit_pos |-> 0, out |-> <<>>])

----------------------------------------------------------------------------
(* splash_anim_delta.c: decompress_palette_lzss *)

\* pal[val < num_colors ? val : 0]
PalLookup(pal, ncolors, val) == At(pal, IF val < ncolors THEN val ELSE 0)

\* the copy loop of a back-reference;
\* st = [in_pos, out_pos, window, window_pos, out]; here and in the loops
\* below the state st0 passed in is evaluated once, then stepped
RECURSIVE FbLzssCopy(_, _, _, _, _, _, _)
FbLzssCopy(pal, ncolors, pixel_count, offset, length, i, st0) ==
    LET Step(st) ==
        IF ~(i < length /\ st.out_pos < pixel_count) THEN st
        ELSE LET win_idx == (st.window_pos - offset + LZSS_WINDOW_SIZE) % LZSS_WINDOW_SIZE
                 val == st.window[win_idx]
             IN  FbLzssCopy(pal, ncolors, pixel_count, offset, length, i + 1,
                     [st EXCEPT !.window = [st.window EXCEPT ![st.window_pos] = val],
                                !.window_pos = (st.window_pos + 1) % LZSS_WINDOW_SIZE,
                                !.out = [st.out EXCEPT ![st.out_pos + 1] =
                                            PalLookup(pal, ncolors, val)],
                                !.out_pos = st.out_pos + 1])
    IN  CHOOSE r \in {Step(st) : st \in {st0}} : TRUE

\* the for loop over the 8 bits of one flag byte
RECURSIVE FbLzssBits(_, _, _, _, _, _, _, _)
FbLzssBits(compressed, comp_size, pal, ncolors, pixel_count, flag, bit, st0) ==
    LET Step(st) ==
        IF ~(bit < 8 /\ st.out_pos < pixel_count) THEN st
        ELSE IF st.in_pos >= comp_size THEN st
        ELSE IF And32(flag, 2 ^ bit) # 0
        THEN LET val == At(compressed, st.in_pos)
             IN  FbLzssBits(compressed, comp_size, pal, ncolors, pixel_count, flag, bit + 1,
                     [st EXCEPT !.in_pos = st.in_pos + 1,
                                !.window = [st.window EXCEPT ![st.window_pos] = val],
                                !.window_pos = (st.window_pos + 1) % LZSS_WINDOW_SIZE,
                                !.out = [st.out EXCEPT ![st.out_pos + 1] =
                                            PalLookup(pal, ncolors, val)],
                                !.out_pos = st.out_pos + 1])
        ELSE IF st.in_pos + 1 >= comp_size THEN st
        ELSE LET b1 == At(compressed, st.in_pos)
                 b2 == At(compressed, st.in_pos + 1)
                 offset == Or32(b1, And32(b2, 240) * 16)
                 length == And32(b2, 15) + LZSS_MIN_MATCH
             IN  FbLzssBits(compressed, comp_size, pal, ncolors, pixel_count, flag, bit + 1,
                     FbLzssCopy(pal, ncolors, pixel_count, offset, length, 0,
                         [st EXCEPT !.in_pos = st.in_pos + 2]))
    IN  CHOOSE r \in {Step(st) : st \in {st0}} : TRUE

RECURSIVE FbLzssLoop(_, _, _, _, _, _)
FbLzssLoop(compressed, comp_size, pal, ncolors, pixel_count, st0) ==
    LET Step(st) ==
        IF ~(st.in_pos < comp_size /\ st.out_pos < pixel_count) THEN st
        ELSE LET flag == At(compressed, st.in_pos)
             IN  FbLzssLoop(compressed, comp_size, pal, ncolors, pixel_count,
                     FbLzssBits(compressed, comp_size, pal, ncolors, pixel_count, flag, 0,
                         [st EXCEPT !.in_pos = st.in_pos + 1]))
    IN  CHOOSE r \in {Step(st) : st \in {st0}} : TRUE

decompress_palette_lzss(compressed, comp_size, pal, ncolors, dst, pixel_count) ==
    FbLzssLoop(compressed, comp_size, pal, ncolors, pixel_count,
               [in_pos |-> 0, out_pos |-> 0, window |-> ZeroWindow,
                window_pos |-> 0, out |-> dst]).out

----------------------------------------------------------------------------
(* splash_anim_drm.c: the DRM engine's decoders *)

\* the literal branch of the DRM decoders: n is clamped to the bytes left,
\* then n values are consumed while pos < count; st = [i, pos, fb]
DrmLiteral(src, src_len, count, cmd, st, xor) ==
    LET n == IF st.i + cmd * 2 > src_len THEN (src_len - st.i) \div 2 ELSE cmd
        Cont(j) == j < n /\ st.pos + j < count
        m == LoopCount(n, {it \in 0..(n - 1) : Cont(it)})
    IN  [i |-> st.i + 2 * m,
         pos |-> st.pos + m,
         fb |-> [k \in 1..Len(st.fb) |->
                    IF st.pos < k /\ k <= st.pos + m
                    THEN LET p == st.i + 2 * (k - 1 - st.pos)
                             w == Word16(At(src, p), At(src, p + 1))
                         IN  IF xor THEN Xor16(st.fb[k], w) ELSE w
                    ELSE st.fb[k]]]

RECURSIVE DrmXorLoop(_, _, _, _)
DrmXorLoop(src, src_len, count, st0) ==
    LET Step(st) ==
        IF ~(st.i < src_len /\ st.pos < count) THEN st
        ELSE
          LET cmd == At(src, st.i)
              s1 == [st EXCEPT !.i = st.i + 1]
          IN  IF cmd = 0 THEN s1
              ELSE IF cmd <= 127
              THEN DrmXorLoop(src, src_len, count,
                       DrmLiteral(src, src_len, count, cmd, s1, TRUE))
              ELSE DrmXorLoop(src, src_len, count,
                       [s1 EXCEPT !.pos = s1.pos + And32(cmd, 127) + 1])
    IN  CHOOSE r \in {Step(st) : st \in {st0}} : TRUE

drm_apply_delta_rle_xor(src, src_len, count, fb) ==
    DrmXorLoop(src, src_len, count, [i |-> 0, pos |-> 0, fb |-> fb]).fb

\* the repeat branch's for loop of the DRM Direct RLE decoder
DrmRepeat(count, repeat, value, st) ==
    LET Cont(j) == j < repeat /\ st.pos + j < count
        m == LoopCount(repeat, {it \in 0..(repeat - 1) : Cont(it)})
    IN  [st EXCEPT !.pos = st.pos + m,
                   !.fb = [k \in 1..Len(st.fb) |->
                              IF st.pos < k /\ k <= st.pos + m
                              THEN value ELSE st.fb[k]]]

RECURSIVE DrmDirectLoop(_, _, _, _)
DrmDirectLoop(src, src_len, count, st0) ==
    LET Step(st) ==
        IF ~(st.i < src_len /\ st.pos < count) THEN st
        ELSE
          LET cmd == At(src, st.i)
              s1 == [st EXCEPT !.i = st.i + 1]
          IN  IF cmd = 0 THEN s1
              ELSE IF cmd <= 127
              THEN DrmDirectLoop(src, src_len, count,
                       DrmLiteral(src, src_len, count, cmd, s1, FALSE))
              ELSE IF s1.i + 1 >= src_len THEN s1
              ELSE LET value == Word16(At(src, s1.i), At(src, s1.i + 1))
                       s2 == [s1 EXCEPT !.i = s1.i + 2]
                   IN  DrmDirectLoop(src, src_len, count,
                           DrmRepeat(count, And32(cmd, 127), value, s2))
    IN  CHOOSE r \in {Step(st) : st \in {st0}} : TRUE

drm_apply_delta_rle_direct(src, src_len, count, fb) ==
    DrmDirectLoop(src, src_len, count, [i |-> 0, pos |-> 0, fb |-> fb]).fb

decode_raw(src, src_len, dst, dst_count) ==
    LET p0 == src_len \div 2
        pixels == IF p0 > dst_count THEN dst_count ELSE p0
    IN  [k \in 1..Len(dst) |->
            IF k <= pixels
            THEN Word16(At(src, (k - 1) * 2), At(src, (k - 1) * 2 + 1))
            ELSE dst[k]]

drm_load_frame_0(data, size, max_pixels, fb) == decode_raw(data, size, fb, max_pixels)

\* apply_delta of the DRM engine: methods other than 0 and 1 are read as raw
drm_apply_delta(method, src, src_len, max_pixels, fb) ==
    IF method = 0 THEN drm_apply_delta_rle_xor(src, src_len, max_pixels, fb)
    ELSE IF method = 1 THEN drm_apply_delta_rle_direct(src, src_len, max_pixels, fb)
    ELSE decode_raw(src, src_len, fb, max_pixels)

\* apply_delta of the framebuffer engine
apply_delta(method, delta, delta_size, max_pixels, fb) ==
    IF method = 0 THEN apply_delta_rle_xor(delta, delta_size, max_pixels, fb)
    ELSE IF method = 1 THEN apply_delta_rle_direct(delta, delta_size, max_pixels, fb)
    ELSE IF method = 2 THEN apply_delta_sparse_xor(delta, delta_size, max_pixels, fb)
    ELSE IF method = 3 THEN apply_delta_raw(delta, delta_size, max_pixels, fb)
    ELSE fb

----------------------------------------------------------------------------
(* splash_anim_drm.c: decompress_palette_lzss; st = [i, pos, dst] *)

\* the for loop of the branch 0x80..0xBF: up to n bytes read as indices
RECURSIVE DrmPalCopy(_, _, _, _, _, _, _)
DrmPalCopy(compressed, comp_size, pal, palette_size, pixel_count, left, st) ==
    IF ~(left > 0 /\ st.pos < pixel_count /\ st.i < comp_size) THEN st
    ELSE LET idx == At(compressed, st.i)
             s1 == [st EXCEPT !.i = st.i + 1]
             s2 == IF idx < palette_size
                   THEN [s1 EXCEPT !.dst[st.pos + 1] = At(pal, idx),
                                   !.pos = st.pos + 1]
                   ELSE s1
         IN  DrmPalCopy(compressed, comp_size, pal, palette_size, pixel_count,
                        left - 1, s2)

\* the for loop of the branch 0xC0..0xFF: n pixels repeat the previous pixel,
\* or palette[0] at the start of the buffer
DrmPalFill(pal, palette_size, pixel_count, n, st) ==
    LET room == pixel_count - st.pos
        m == IF n < room THEN n ELSE room
        v == IF st.pos > 0 THEN st.dst[st.pos]
             ELSE IF palette_size > 0 THEN At(pal, 0)
             ELSE st.dst[1]
    IN  [st EXCEPT !.pos = st.pos + m,
                   !.dst = [k \in 1..Len(st.dst) |->
                               IF st.pos < k /\ k <= st.pos + m THEN v
                               ELSE st.dst[k]]]

RECURSIVE DrmPalLoop(_, _, _, _, _, _)
DrmPalLoop(compressed, comp_size, pal, palette_size, pixel_count, st0) ==
    LET Step(st) ==
        IF ~(st.i < comp_size /\ st.pos < pixel_count) THEN st
        ELSE
          LET b == At(compressed, st.i)
              s1 == [st EXCEPT !.i = st.i + 1]
          IN  IF b < 128
              THEN DrmPalLoop(compressed, comp_size, pal, palette_size, pixel_count,
                       IF b < palette_size
                       THEN [s1 EXCEPT !.dst[st.pos + 1] = At(pal, b),
                                       !.pos = st.pos + 1]
                       ELSE s1)
              ELSE IF b <= 191
              THEN DrmPalLoop(compressed, comp_size, pal, palette_size, pixel_count,
                       DrmPalCopy(compressed, comp_size, pal, palette_size,
                                  pixel_count, (b - 128) + 2, s1))
              ELSE IF s1.i < comp_size
              THEN DrmPalLoop(compressed, comp_size, pal, palette_size, pixel_count,
                       DrmPalFill(pal, palette_size, pixel_count, At(compressed, s1.i),
                                  [s1 EXCEPT !.i = s1.i + 1]))
              ELSE s1
    IN  CHOOSE r \in {Step(st) : st \in {st0}} : TRUE

drm_decompress_palette_lzss(compressed, comp_size, pal, palette_size, dst, pixel_count) ==
    DrmPalLoop(compressed, comp_size, pal, palette_size, pixel_count,
               [i |-> 0, pos |-> 0, dst |-> dst]).dst

----------------------------------------------------------------------------
(* Pixel expansion and compositing *)

\* the SSE2 lanes of blit_to_fb_32bpp_sse2: mask, then shift each channel
Sse2Xrgb(pixel) ==
    Or32(Or32(And32(pixel, 63488) * 256, And32(pixel, 2016) * 32),
         And32(pixel, 31) * 8)

\* the scalar tail of blit_to_fb_32bpp_sse2: (r << 19) | (g << 10) | (b << 3)
ScalarXrgb(pixel) ==
    LET r == And32(pixel \div 2048, 31)
        g == And32(pixel \div 32, 63)
        b == And32(pixel, 31)
    IN  Or32(Or32(r * 524288, g * 1024), b * 8)

\* the lanes with red shifted right by 11, not expanded to 8 bits
Sse2Bgrx_srl11(pixel) ==
    Or32(Or32(And32(pixel, 63488) \div 2048, And32(pixel, 2016) * 32),
         And32(pixel, 31) * 524288)

\* the SSE2 lanes of blit_to_fb_32bpp_sse2_bgr
Sse2Bgrx(pixel) ==
    Or32(Or32(And32(pixel, 63488) \div 256, And32(pixel, 2016) * 32),
         And32(pixel, 31) * 524288)

\* the scalar tail of blit_to_fb_32bpp_sse2_bgr: (b << 19) | (g << 10) | (r << 3)
ScalarBgrx(pixel) ==
    LET r == And32(pixel \div 2048, 31)
        g == And32(pixel \div 32, 63)
        b == And32(pixel, 31)
    IN  Or32(Or32(b * 524288, g * 1024), r * 8)

\* v << off on uint32_t: the bits shifted past bit 31 are lost
Shl32(v, off) == IF off = 0 THEN v ELSE (v % (2 ^ (32 - off))) * (2 ^ off)

\* the scalar fallback of blit_to_fb_32bpp, on uint32_t
ScalarLayout(pixel, r_off, g_off, b_off) ==
    LET r == And32(pixel \div 2048, 31)
        g == And32(pixel \div 32, 63)
        b == And32(pixel, 31)
    IN  Or32(Or32(Shl32(r * 8, r_off), Shl32(g * 4, g_off)), Shl32(b * 8, b_off))

\* the word written for column col of a run of visible_count pixels
Convert32(pixel, col, visible_count, r_off, g_off, b_off) ==
    LET vector == col < 8 * (visible_count \div 8)
    IN  IF r_off = 16 /\ g_off = 8 /\ b_off = 0
        THEN IF vector THEN Sse2Xrgb(pixel) ELSE ScalarXrgb(pixel)
        ELSE IF r_off = 0 /\ g_off = 8 /\ b_off = 16
        THEN IF vector THEN Sse2Bgrx(pixel) ELSE ScalarBgrx(pixel)
        ELSE ScalarLayout(pixel, r_off, g_off, b_off)

\* byte k of a little-endian word
ByteOf(word, k) == (word \div (256 ^ k)) % 256

MaxOf(S) == CHOOSE m \in S : \A e \in S : e <= m

\* memset(mem + from, c, n)
memset(mem, from, c, n) ==
    [o \in DOMAIN mem |-> IF from <= o /\ o < from + n THEN c ELSE mem[o]]

\* blit_to_fb_16bpp: one memcpy of copy_len pixels per visible row
blit_to_fb_16bpp(mem, fb_w, fb_h, line_len, frame, fw, fh, x, y) ==
    LET copy0 == IF x + fw > fb_w THEN fb_w - x ELSE fw
        copy_len == IF x < 0 THEN copy0 + x ELSE copy0
        SrcOf(row) == row * fw + (IF x < 0 THEN -x ELSE 0)
        DstOf(row) == (y + row) * line_len + x * 2 + (IF x < 0 THEN x * 2 ELSE 0)
        Rows(o) == {row \in 0..(fh - 1) :
                       /\ ~(y + row >= fb_h \/ y + row < 0)
                       /\ copy_len > 0
                       /\ DstOf(row) <= o /\ o < DstOf(row) + copy_len * 2}
    IN  [o \in DOMAIN mem |->
            IF Rows(o) = {} THEN mem[o]
            ELSE LET row == MaxOf(Rows(o))
                     k == o - DstOf(row)
                 IN  ByteOf(At(frame, SrcOf(row) + (k \div 2)), k % 2)]

\* blit_to_fb_32bpp: visible columns of each visible row, converted
blit_to_fb_32bpp(mem, fb_w, fb_h, line_len, frame, fw, fh, x, y, r_off, g_off, b_off) ==
    LET col_start == IF x < 0 THEN -x ELSE 0
        col_end == IF x + fw > fb_w THEN fb_w - x ELSE fw
        visible_count == col_end - col_start
        SrcOf(row) == row * fw + col_start
        DstOf(row) == (y + row) * line_len + x * 4 + col_start * 4
        Rows(o) == {row \in 0..(fh - 1) :
                       /\ ~(y + row >= fb_h \/ y + row < 0)
                       /\ ~(visible_count <= 0)
                       /\ DstOf(row) <= o /\ o < DstOf(row) + visible_count * 4}
    IN  [o \in DOMAIN mem |->
            IF Rows(o) = {} THEN mem[o]
            ELSE LET row == MaxOf(Rows(o))
                     k == o - DstOf(row)
                     col == k \div 4
                 IN  ByteOf(Convert32(At(frame, SrcOf(row) + col), col,
                                      visible_count, r_off, g_off, b_off),
                            k % 4)]

\* blit_to_fb_24bpp: every visible pixel of every visible row, one byte per
\* component at byte position r_off, g_off, b_off; of the writes to one byte
\* the last in program order stays (n numbers them in that order)
blit_to_fb_24bpp(mem, fb_w, fb_h, line_len, frame, fw, fh, x, y, r_off, g_off, b_off) ==
    LET OffOf(ch) == IF ch = 0 THEN r_off ELSE IF ch = 1 THEN g_off ELSE b_off
        RowOf(n) == n \div (fw * 3)
        ColOf(n) == (n \div 3) % fw
        Writes(o) == {n \in 0..(fh * fw * 3 - 1) :
                        /\ ~(y + RowOf(n) >= fb_h \/ y + RowOf(n) < 0)
                        /\ ~(x + ColOf(n) >= fb_w \/ x + ColOf(n) < 0)
                        /\ o = (y + RowOf(n)) * line_len + x * 3 + ColOf(n) * 3
                               + OffOf(n % 3)}
    IN  [o \in DOMAIN mem |->
            IF Writes(o) = {} THEN mem[o]
            ELSE LET n == MaxOf(Writes(o))
                     pixel == At(frame, RowOf(n) * fw + ColOf(n))
                 IN  IF n % 3 = 0 THEN (And32(pixel \div 2048, 31) * 8) % 256
                     ELSE IF n % 3 = 1 THEN (And32(pixel \div 32, 63) * 4) % 256
                     ELSE (And32(pixel, 31) * 8) % 256]

\* blit_frame: dispatch on the surface depth
blit_frame(mem, fb_w, fb_h, line_len, bpp, frame, fw, fh, x, y, r_off, g_off, b_off) ==
    IF bpp = 32
    THEN blit_to_fb_32bpp(mem, fb_w, fb_h, line_len, frame, fw, fh, x, y,
                          r_off, g_off, b_off)
    ELSE IF bpp = 16
    THEN blit_to_fb_16bpp(mem, fb_w, fb_h, line_len, frame, fw, fh, x, y)
    ELSE IF bpp = 24
    THEN blit_to_fb_24bpp(mem, fb_w, fb_h, line_len, frame, fw, fh, x, y,
                          r_off, g_off, b_off)
    ELSE mem

\* blit_to_drm: clip, then convert row by row; rows of the source are
\* FRAME_W pixels apart
blit_to_drm(mem, fb_w, fb_h, fb_pitch, frame, fw0, fh0, x0, y0, frame_w) ==
    LET fw1 == IF x0 < 0 THEN fw0 + x0 ELSE fw0
        off1 == IF x0 < 0 THEN -x0 ELSE 0
        x == IF x0 < 0 THEN 0 ELSE x0
        fh1 == IF y0 < 0 THEN fh0 + y0 ELSE fh0
        off2 == IF y0 < 0 THEN off1 - y0 * frame_w ELSE off1
        y == IF y0 < 0 THEN 0 ELSE y0
        fw == IF x + fw1 > fb_w THEN fb_w - x ELSE fw1
        fh == IF y + fh1 > fb_h THEN fb_h - y ELSE fh1
        SrcOf(row) == off2 + row * frame_w
        DstOf(row) == (y + row) * fb_pitch + x * 4
        Rows(o) == {row \in 0..(fh - 1) :
                       DstOf(row) <= o /\ o < DstOf(row) + fw * 4}
    IN  IF fw <= 0 \/ fh <= 0 THEN mem
        ELSE [o \in DOMAIN mem |->
                IF Rows(o) = {} THEN mem[o]
                ELSE LET row == MaxOf(Rows(o))
                         k == o - DstOf(row)
                         col == k \div 4
                         pixel == At(frame, SrcOf(row) + col)
                     IN  ByteOf(IF col < 8 * (fw \div 8)
                                THEN Sse2Xrgb(pixel) ELSE ScalarXrgb(pixel),
                                k % 4)]

\* fill_fb_color of the framebuffer engine (16 and 32 bpp)
fill_fb_color(mem, fb_w, fb_h, line_len, bpp, color, r_off, g_off, b_off) ==
    IF color = 0
    THEN [o \in DOMAIN mem |-> IF o < fb_h * line_len THEN 0 ELSE mem[o]]
    ELSE LET Bpp == bpp \div 8
             pixel == IF bpp = 32
                      THEN IF r_off = 16 /\ g_off = 8 /\ b_off = 0
                           THEN ScalarXrgb(color)
                           ELSE ScalarLayout(color, r_off, g_off, b_off)
                      ELSE color
         IN  [o \in DOMAIN mem |->
                IF o < fb_h * line_len /\ (o % line_len) < fb_w * Bpp
                THEN ByteOf(pixel, (o % line_len) % Bpp)
                ELSE mem[o]]

\* fill_fb_color of the DRM engine
drm_fill_fb_color(mem, fb_w, fb_h, fb_pitch, color) ==
    [o \in DOMAIN mem |->
        IF o < fb_h * fb_pitch /\ (o % fb_pitch) < fb_w * 4
        THEN ByteOf(ScalarXrgb(color), (o % fb_pitch) % 4)
        ELSE mem[o]]

----------------------------------------------------------------------------
(* Inputs of the codec harness *)

RECURSIVE SeqsOfLen(_, _)
SeqsOfLen(S, n) ==
    IF n = 0 THEN {<<>>}
    ELSE {Append(s, v) : s \in SeqsOfLen(S, n - 1), v \in S}

ShortFrames(n) == SeqsOfLen(PixelVals, n)

\* a long frame: a up to k1, b up to k2, a again up to LongLen
BreakPoints == {0, 1, 127, 128, 129, LongLen}
LongFrame(a, b, k1, k2) ==
    [i \in 1..LongLen |-> IF i <= k1 THEN a ELSE IF i <= k2 THEN b ELSE a]
LongFrames ==
    {LongFrame(a, b, k1, k2) :
        a \in LongVals, b \in LongVals,
        k1 \in BreakPoints, k2 \in BreakPoints}
LongPrevs == {[i \in 1..LongLen |-> 0]}

ZeroFrame(n) == [i \in 1..n |-> 0]

\* (curr, prev) for each encoder: the delta methods take a previous frame,
\* Direct RLE decodes over arbitrary buffer contents, and the palette image
\* is decoded into a freshly mapped (zero) buffer
Inputs(o) ==
    IF o = "palette"
    THEN {<<f, ZeroFrame(Len(f))>> :
             f \in (UNION {ShortFrames(n) : n \in 1..(MaxLen + 2)}) \cup LongFrames}
    ELSE UNION {ShortFrames(n) \X ShortFrames(n) : n \in 1..MaxLen}
         \cup (LongFrames \X LongPrevs)

Methods == {"rle_xor", "rle_direct", "sparse", "palette"}

\* the engine does not run in the codec harness
EngineStill ==
    /\ sink = "none" /\ DISPLAY_MODE = 0 /\ LOOP = 0 /\ NFRAMES = 0
    /\ COMPRESS_METHOD = 0 /\ src_frames = <<>> /\ frames = <<>>
    /\ frame_sizes = <<>> /\ bits_per_pixel = 0
    /\ pos_x = 0 /\ pos_y = 0
    /\ frame_pixels = 0 /\ test_sizes = <<>>
    /\ pc = "idle" /\ frame_idx = 0 /\ frame_buffer = <<>>
    /\ terminate_requested = 0 /\ fbmem = <<>> /\ fb_mapped = FALSE
    /\ sleep_req = 0
    /\ ticks = 0 /\ last_presented = -1
    /\ blits_after_term = 0 /\ decodes_after_term = 0
    /\ cmdline = <<>> /\ exit_status = -1
    /\ elapsed = 0 /\ sleep_ms_arg = 0 /\ slept = 0

EngineIdle ==
    /\ EngineStill
    /\ ToolsIdle

CodecInit ==
    /\ op \in Methods
    /\ cpc = "input"
    /\ \E fp \in Inputs(op) : curr = fp[1] /\ prev = fp[2]
    /\ out = <<>>
    /\ out_len = 0
    /\ palette = <<>>
    /\ num_colors = 0
    /\ indices = <<>>
    /\ dec = <<>>
    /\ EngineIdle

EncodeRleXor ==
    /\ op = "rle_xor" /\ cpc = "input"
    /\ out' = compress_rle_xor(curr, prev, Len(curr))
    /\ out_len' = Len(out')
    /\ cpc' = "encoded"
    /\ UNCHANGED <<op, curr, prev, palette, num_colors, indices, dec>>
    /\ UNCHANGED <<bvars, evars, hvars, kvars, svars>>

DecodeRleXor ==
    /\ op = "rle_xor" /\ cpc = "encoded"
    /\ dec' = apply_delta_rle_xor(out, out_len, Len(curr), prev)
    /\ cpc' = "decoded"
    /\ UNCHANGED <<op, curr, prev, out, out_len, palette, num_colors, indices>>
    /\ UNCHANGED <<bvars, evars, hvars, kvars, svars>>

EncodeRleDirect ==
    /\ op = "rle_direct" /\ cpc = "input"
    /\ out' = compress_rle_direct(curr, Len(curr))
    /\ out_len' = Len(out')
    /\ cpc' = "encoded"
    /\ UNCHANGED <<op, curr, prev, palette, num_colors, indices, dec>>
    /\ UNCHANGED <<bvars, evars, hvars, kvars, svars>>

DecodeRleDirect ==
    /\ op = "rle_direct" /\ cpc = "encoded"
    /\ dec' = apply_delta_rle_direct(out, out_len, Len(curr), prev)
    /\ cpc' = "decoded"
    /\ UNCHANGED <<op, curr, prev, out, out_len, palette, num_colors, indices>>
    /\ UNCHANGED <<bvars, evars, hvars, kvars, svars>>

EncodeSparse ==
    /\ op = "sparse" /\ cpc = "input"
    /\ out' = compress_sparse_xor(curr, prev, Len(curr))
    /\ out_len' = Len(out')
    /\ cpc' = "encoded"
    /\ UNCHANGED <<op, curr, prev, palette, num_colors, indices, dec>>
    /\ UNCHANGED <<bvars, evars, hvars, kvars, svars>>

DecodeSparse ==
    /\ op = "sparse" /\ cpc = "encoded"
    /\ dec' = apply_delta_sparse_xor(out, out_len, Len(curr), prev)
    /\ cpc' = "decoded"
    /\ UNCHANGED <<op, curr, prev, out, out_len, palette, num_colors, indices>>
    /\ UNCHANGED <<bvars, evars, hvars, kvars, svars>>

\* build_palette, then compress_lzss on the index stream
EncodePalette ==
    /\ op = "palette" /\ cpc = "input"
    /\ LET bp == build_palette(curr, Len(curr))
       IN  /\ palette' = bp.palette
           /\ num_colors' = bp.num_colors
           /\ indices' = bp.indices
           /\ out' = compress_lzss(bp.indices, Len(curr))
    /\ out_len' = Len(out')
    /\ cpc' = "encoded"
    /\ UNCHANGED <<op, curr, prev, dec>>
    /\ UNCHANGED <<bvars, evars, hvars, kvars, svars>>

DecodePalette ==
    /\ op = "palette" /\ cpc = "encoded"
    /\ dec' = decompress_palette_lzss(out, out_len, palette, num_colors,
                                      prev, Len(curr))
    /\ cpc' = "decoded"
    /\ UNCHANGED <<op, curr, prev, out, out_len, palette, num_colors, indices>>
    /\ UNCHANGED <<bvars, evars, hvars, kvars, svars>>

CodecNext ==
    \/ EncodeRleXor
    \/ DecodeRleXor
    \/ EncodeRleDirect
    \/ DecodeRleDirect
    \/ EncodeSparse
    \/ DecodeSparse
    \/ EncodePalette
    \/ DecodePalette

----------------------------------------------------------------------------
(* generate_splash.c: the frame table written to frames_delta.h *)

FRAME_W == 2
FRAME_H == 1
HORIZONTAL_OFFSET == 0
VERTICAL_OFFSET == 0
BACKGROUND_COLOR == 0
FRAME_DURATION_MS == 33
HOLD_SLEEP_MS == 1000

MaxPixels == FRAME_W * FRAME_H

\* frame 0 is always raw; frames 1.. use the selected method
CompressFrame(method, src, f) ==
    IF f = 0 THEN compress_raw_direct(At(src, 0), MaxPixels)
    ELSE IF method = 0 THEN compress_rle_xor(At(src, f), At(src, f - 1), MaxPixels)
    ELSE IF method = 1 THEN compress_rle_direct(At(src, f), MaxPixels)
    ELSE IF method = 2 THEN compress_sparse_xor(At(src, f), At(src, f - 1), MaxPixels)
    ELSE IF method = 3 THEN compress_raw_direct(At(src, f), MaxPixels)
    ELSE compress_rle_xor(At(src, f), At(src, f - 1), MaxPixels)

FrameTable(method, src, n) == [f \in 1..n |-> CompressFrame(method, src, f - 1)]

----------------------------------------------------------------------------
(* generate_splash.c: the auto mode of main *)

COMPRESS_RLE_XOR == 0
COMPRESS_RLE_DIRECT == 1
COMPRESS_SPARSE == 2
COMPRESS_RAW == 3
COMPRESS_AUTO == 4
COMPRESS_PALETTE_LZSS == 5

\* SIZE_MAX, here the largest integer of the model: totals stay far below it
SIZE_MAX == 2147483647

\* method_ids[], in the order the methods are tested
method_ids == <<COMPRESS_RLE_XOR, COMPRESS_SPARSE, COMPRESS_RLE_DIRECT>>

\* size of frame f (f >= 1) under method id, as the switch of the test loop
TestEncode(id, src, f, count) ==
    IF id = COMPRESS_RLE_XOR
    THEN Len(compress_rle_xor(At(src, f), At(src, f - 1), count))
    ELSE IF id = COMPRESS_SPARSE
    THEN Len(compress_sparse_xor(At(src, f), At(src, f - 1), count))
    ELSE IF id = COMPRESS_RLE_DIRECT
    THEN Len(compress_rle_direct(At(src, f), count))
    ELSE 0

\* the inner loop over f = k .. nframes-1 on the measured sizes sz (sz[f] is
\* the size of frame f): a zero size ends it with total = SIZE_MAX
RECURSIVE TestTotal(_, _, _)
TestTotal(total, sz, k) ==
    IF k > Len(sz) THEN total
    ELSE IF sz[k] = 0 /\ k > 0 THEN SIZE_MAX
    ELSE TestTotal(total + sz[k], sz, k + 1)

\* the outer loop from method m on, ties going to the method tested last
RECURSIVE AutoLoop_le(_, _, _, _, _)
AutoLoop_le(m, best_size, best_method, frame0_size, sizes) ==
    IF m >= 3 THEN best_method
    ELSE LET total == TestTotal(frame0_size, sizes[m + 1], 1)
         IN  IF total <= best_size
             THEN AutoLoop_le(m + 1, total, method_ids[m + 1], frame0_size, sizes)
             ELSE AutoLoop_le(m + 1, best_size, best_method, frame0_size, sizes)

\* the outer loop from method m on: if (total < best_size) take method m
RECURSIVE AutoLoop(_, _, _, _, _)
AutoLoop(m, best_size, best_method, frame0_size, sizes) ==
    IF m >= 3 THEN best_method
    ELSE LET total == TestTotal(frame0_size, sizes[m + 1], 1)
         IN  IF total < best_size
             THEN AutoLoop(m + 1, total, method_ids[m + 1], frame0_size, sizes)
             ELSE AutoLoop(m + 1, best_size, best_method, frame0_size, sizes)

----------------------------------------------------------------------------
(* The destination surface *)

LineLength(bpp) == XRES * (bpp \div 8)
FbSize(bpp) == LineLength(bpp) * YRES

\* x and y computed by main
PosX == ((XRES - FRAME_W) \div 2) + HORIZONTAL_OFFSET
PosY == ((YRES - FRAME_H) \div 2) + VERTICAL_OFFSET

\* the composite of one tick: blit_frame on the framebuffer, blit_to_drm on DRM
Composite(snk, bpp, mem, fb) ==
    IF snk = "fb"
    THEN blit_frame(mem, XRES, YRES, LineLength(bpp), bpp, fb,
                    FRAME_W, FRAME_H, pos_x, pos_y, 16, 8, 0)
    ELSE blit_to_drm(mem, XRES, YRES, LineLength(32), fb,
                     FRAME_W, FRAME_H, pos_x, pos_y, FRAME_W)

\* the background drawn before the loop
Background(snk, bpp, mem) ==
    IF snk = "fb"
    THEN fill_fb_color(mem, XRES, YRES, LineLength(bpp), bpp,
                       BACKGROUND_COLOR, 16, 8, 0)
    ELSE drm_fill_fb_color([o \in DOMAIN mem |-> 0], XRES, YRES,
                           LineLength(32), BACKGROUND_COLOR)

\* the background image of the modes 1 and 2, as wide and as high as the
\* surface of the model
BG_W == 3
BG_H == 2

HasBackground == DISPLAY_MODE \in {1, 2}

\* the background image drawn before the loop, at the top left corner
DrawBackground(snk, bpp, mem, bg) ==
    IF snk = "fb"
    THEN blit_frame(mem, XRES, YRES, LineLength(bpp), bpp, bg,
                    BG_W, BG_H, 0, 0, 16, 8, 0)
    ELSE blit_to_drm([o \in DOMAIN mem |-> 0], XRES, YRES, LineLength(32), bg,
                     BG_W, BG_H, 0, 0, FRAME_W)

\* cleanup with the clear sized by the pixel count instead of the surface
CleanupClear_pixels(mem, size) == memset(mem, 0, 0, MaxPixels)

\* cleanup: memset(fbmem, 0, fb_size)
CleanupClear(mem, size) == memset(mem, 0, 0, size)

----------------------------------------------------------------------------
(* Playback engine: main of splash_anim_delta.c and splash_anim_drm.c *)

CountCap == 2           \* the history counters stop counting here

Bump(c) == IF c < CountCap THEN c + 1 ELSE c

\* source frames: black up to pixel k, green from there on
PlayFrames ==
    {[i \in 1..MaxPixels |-> IF i <= k THEN 0 ELSE 2016] : k \in {0, 1, MaxPixels}}

IsAnim == DISPLAY_MODE \notin {3, 4}

\* a read of the flag that never sees the handler's store
TerminateSeen_stale(flag) == FALSE

\* the test of the volatile flag terminate_requested
TerminateSeen(flag) == flag # 0

\* the wrap branch taken whatever LOOP says
LoopEnabled_always(l) == TRUE

\* #ifdef LOOP / if (LOOP)
LoopEnabled(l) == l # 0

\* the wrap test written with > instead of >=
CursorAtEnd_gt(idx, n) == idx > n

\* if (frame_idx >= NFRAMES)
CursorAtEnd(idx, n) == idx >= n

\* the next unit decoded as a delta even when the cursor is 0
FbNextFrame_nodelta0(method, tbl, sizes, idx, fb) ==
    apply_delta(method, At(tbl, idx), At(sizes, idx), MaxPixels, fb)

\* the framebuffer engine's decode step: frame 0 is reloaded raw
FbNextFrame(method, tbl, sizes, idx, fb) ==
    IF idx = 0 THEN load_frame_0(At(tbl, 0), At(sizes, 0), MaxPixels, fb)
    ELSE apply_delta(method, At(tbl, idx), At(sizes, idx), MaxPixels, fb)

\* the DRM engine's decode step: frame 0 was reloaded at the wrap
DrmNextFrame(method, tbl, sizes, idx, fb) ==
    IF idx > 0 THEN drm_apply_delta(method, At(tbl, idx), At(sizes, idx), MaxPixels, fb)
    ELSE fb

\* rem left by an interrupted nanosleep(req)
RemVals(req) == {req, req \div 2, 0}

(* The kill switch: check_cmdline_disable on the text of /proc/cmdline *)

\* a text is a sequence of characters; NUL ends the buffer
NUL == ""
NoSplash == <<"n", "o", "s", "p", "l", "a", "s", "h">>
XbootsplashEq == <<"x", "b", "o", "o", "t", "s", "p", "l", "a", "s", "h", "=">>
XbootsplashOff == XbootsplashEq \o <<"0">>

CMDLINE_BUF == 4096

\* buf after read(fd, buf, sizeof(buf) - 1) and buf[n] = '\0'
ReadCmdline(file) ==
    IF Len(file) <= CMDLINE_BUF - 1 THEN file ELSE SubSeq(file, 1, CMDLINE_BUF - 1)

\* p[i] of a NUL-terminated buffer
CharAt(buf, p) == IF p < Len(buf) THEN buf[p + 1] ELSE NUL

IsSep(c) == c = " " \/ c = "\t" \/ c = "\n"

\* while (*p == ' ' || *p == '\t' || *p == '\n') p++;
RECURSIVE SkipSeps(_, _)
SkipSeps(buf, p) == IF IsSep(CharAt(buf, p)) THEN SkipSeps(buf, p + 1) ELSE p

\* while (*p && *p != ' ' && *p != '\t' && *p != '\n') p++;
RECURSIVE SkipParam(_, _)
SkipParam(buf, p) ==
    IF CharAt(buf, p) # NUL /\ ~IsSep(CharAt(buf, p)) THEN SkipParam(buf, p + 1) ELSE p

\* p[0] == w[0] && p[1] == w[1] && ... : the first Len(w) characters at p
StartsWith(buf, p, w) == \A i \in 1..Len(w) : CharAt(buf, p + i - 1) = w[i]

\* the scan of the framebuffer engine from position p on
RECURSIVE CmdlineScan(_, _)
CmdlineScan(buf, p) ==
    LET q == SkipSeps(buf, p)
        next8 == CharAt(buf, q + 8)
        next13 == CharAt(buf, q + 13)
    IN  IF CharAt(buf, q) = NUL THEN 0
        ELSE IF StartsWith(buf, q, NoSplash) /\ (IsSep(next8) \/ next8 = NUL) THEN 1
        ELSE IF /\ StartsWith(buf, q, XbootsplashEq)
                /\ CharAt(buf, q + 12) = "0"
                /\ (IsSep(next13) \/ next13 = NUL) THEN 1
        ELSE CmdlineScan(buf, SkipParam(buf, q))

\* the same scan with the next-character test of nosplash left out
RECURSIVE CmdlineScan_prefix(_, _)
CmdlineScan_prefix(buf, p) ==
    LET q == SkipSeps(buf, p)
        next8 == CharAt(buf, q + 8)
        next13 == CharAt(buf, q + 13)
    IN  IF CharAt(buf, q) = NUL THEN 0
        ELSE IF StartsWith(buf, q, NoSplash) THEN 1
        ELSE IF /\ StartsWith(buf, q, XbootsplashEq)
                /\ CharAt(buf, q + 12) = "0"
                /\ (IsSep(next13) \/ next13 = NUL) THEN 1
        ELSE CmdlineScan_prefix(buf, SkipParam(buf, q))

check_cmdline_disable_prefix(file) ==
    IF Len(ReadCmdline(file)) <= 0 THEN 0 ELSE CmdlineScan_prefix(ReadCmdline(file), 0)

\* check_cmdline_disable of the framebuffer engine: 1 = disabled
check_cmdline_disable(file) ==
    IF Len(ReadCmdline(file)) <= 0 THEN 0 ELSE CmdlineScan(ReadCmdline(file), 0)

\* the scan of the DRM engine: strncmp over 8 and over 13 characters
RECURSIVE DrmCmdlineScan(_, _)
DrmCmdlineScan(buf, p) ==
    LET q == SkipSeps(buf, p)
        next8 == CharAt(buf, q + 8)
        next13 == CharAt(buf, q + 13)
    IN  IF CharAt(buf, q) = NUL THEN 0
        ELSE IF StartsWith(buf, q, NoSplash) /\ (IsSep(next8) \/ next8 = NUL) THEN 1
        ELSE IF StartsWith(buf, q, XbootsplashOff) /\ (IsSep(next13) \/ next13 = NUL)
        THEN 1
        ELSE DrmCmdlineScan(buf, SkipParam(buf, q))

\* check_cmdline_disable of the DRM engine
drm_check_cmdline_disable(file) ==
    IF Len(ReadCmdline(file)) <= 0 THEN 0 ELSE DrmCmdlineScan(ReadCmdline(file), 0)

\* the kill switch of the engine that drives sink s
KillSwitchOn(s, file) ==
    IF s = "fb" THEN check_cmdline_disable(file) ELSE drm_check_cmdline_disable(file)

MaxParts == 3

\* the pieces boot parameter texts are made of
CmdlineParts ==
    {NoSplash, XbootsplashOff, XbootsplashEq, <<"n", "o">>, <<"q">>, <<"0">>,
     <<" ">>, <<"\t">>, <<"\n">>}

RECURSIVE TextsOf(_)
TextsOf(n) ==
    IF n = 0 THEN {<<>>}
    ELSE TextsOf(n - 1) \cup {t \o w : t \in TextsOf(n - 1), w \in CmdlineParts}

\* the boot parameter texts of the playback runs: one that leaves the splash
\* on, one with each of the two switches
BootLines ==
    {<<"q">>, <<"q", " ">> \o NoSplash, XbootsplashOff \o <<"\n">>}

CodecIdle ==
    /\ op = "none" /\ cpc = "idle"
    /\ curr = <<>> /\ prev = <<>> /\ out = <<>> /\ out_len = 0
    /\ indices = <<>> /\ dec = <<>>

EngineInit ==
    /\ CodecIdle
    /\ sink \in {"fb", "drm"}
    /\ bits_per_pixel \in (IF sink = "fb" THEN {16, 32} ELSE {32})
    /\ DISPLAY_MODE \in {0, 3}
    /\ NFRAMES \in (IF DISPLAY_MODE = 0 THEN 1..MaxFrames ELSE {1})
    /\ LOOP \in (IF DISPLAY_MODE = 0 THEN {0, 1} ELSE {1})
    /\ COMPRESS_METHOD \in (IF DISPLAY_MODE = 0 THEN 0..3 ELSE {5})
    /\ src_frames \in SeqsOfLen(PlayFrames, NFRAMES)
    /\ IF DISPLAY_MODE = 0
       THEN /\ frames = FrameTable(COMPRESS_METHOD, src_frames, NFRAMES)
            /\ palette = <<>>
            /\ num_colors = 0
       ELSE LET bp == build_palette(At(src_frames, 0), MaxPixels)
            IN  /\ frames = <<compress_lzss(bp.indices, MaxPixels)>>
                /\ palette = bp.palette
                /\ num_colors = bp.num_colors
    /\ frame_sizes = [f \in 1..NFRAMES |-> Len(frames[f])]
    /\ pos_x = PosX
    /\ pos_y = PosY
    /\ frame_pixels = MaxPixels
    /\ test_sizes = <<>>
    /\ pc = "start"
    /\ frame_idx = 0
    /\ frame_buffer = <<>>
    /\ terminate_requested = 0
    /\ \E b \in ScreenBytes : fbmem = [o \in 0..(FbSize(bits_per_pixel) - 1) |-> b]
    /\ fb_mapped = FALSE
    /\ sleep_req = 0
    /\ ticks = 0
    /\ last_presented = -1
    /\ blits_after_term = 0
    /\ decodes_after_term = 0
    /\ exit_status = -1
    /\ ToolsIdle
    /\ elapsed = 0
    /\ sleep_ms_arg = 0
    /\ slept = 0

Init ==
    /\ EngineInit
    /\ cmdline \in BootLines

\* if (check_cmdline_disable()) return 0;
KillSwitch ==
    /\ pc = "start"
    /\ KillSwitchOn(sink, cmdline) # 0
    /\ pc' = "disabled"
    /\ exit_status' = 0
    /\ UNCHANGED <<cmdline, svars, gvars>>
    /\ UNCHANGED <<frame_idx, frame_buffer, terminate_requested, fbmem, fb_mapped,
                   sleep_req>>
    /\ UNCHANGED <<cvars, bvars, hvars>>

\* main up to the loop: handlers installed, pixel buffer reserved and loaded,
\* surface opened and mapped, background drawn
Startup ==
    /\ pc = "start"
    /\ KillSwitchOn(sink, cmdline) = 0
    /\ frame_buffer' =
         IF sink = "fb"
         THEN IF IsAnim
              THEN load_frame_0(At(frames, 0), At(frame_sizes, 0), MaxPixels,
                                ZeroFrame(MaxPixels))
              ELSE decompress_palette_lzss(At(frames, 0), At(frame_sizes, 0),
                       palette, num_colors, ZeroFrame(MaxPixels), MaxPixels)
         ELSE IF IsAnim
              THEN drm_load_frame_0(At(frames, 0), At(frame_sizes, 0), MaxPixels,
                                    ZeroFrame(MaxPixels))
              ELSE ZeroFrame(MaxPixels)
    /\ bg_buffer' =
         IF ~HasBackground THEN bg_buffer
         ELSE IF sink = "fb"
         THEN decompress_palette_lzss(out, out_len, palette, num_colors,
                                      ZeroFrame(BG_W * BG_H), BG_W * BG_H)
         ELSE drm_decompress_palette_lzss(out, out_len, palette, num_colors,
                                          ZeroFrame(BG_W * BG_H), BG_W * BG_H)
    /\ fbmem' = IF HasBackground
                THEN DrawBackground(sink, bits_per_pixel, fbmem, bg_buffer')
                ELSE Background(sink, bits_per_pixel, fbmem)
    /\ fb_mapped' = TRUE
    /\ frame_idx' = 0
    /\ pc' = IF IsAnim THEN "loop_check" ELSE "static_blit"
    /\ UNCHANGED <<terminate_requested, sleep_req>>
    /\ UNCHANGED <<cvars, bvars, hvars>>
    /\ UNCHANGED <<cmdline, exit_status, argv, stdout, stderr, rvars, svars>>
    /\ UNCHANGED <<dec_drm, rgb_off>>

\* while (!terminate_requested)
LoopCheck ==
    /\ pc = "loop_check"
    /\ pc' = IF TerminateSeen(terminate_requested) THEN "cleanup" ELSE "blit"
    /\ UNCHANGED <<frame_idx, frame_buffer, terminate_requested, fbmem,
                   fb_mapped, sleep_req>>
    /\ UNCHANGED <<cvars, bvars, hvars>>
    /\ elapsed' = 0
    /\ UNCHANGED <<kvars, sleep_ms_arg, slept>>

\* blit the current frame
Blit ==
    /\ pc = "blit"
    /\ fbmem' = Composite(sink, bits_per_pixel, fbmem, frame_buffer)
    /\ pc' = "term_check"
    /\ last_presented' = frame_idx
    /\ blits_after_term' = IF terminate_requested # 0
                           THEN Bump(blits_after_term) ELSE blits_after_term
    /\ UNCHANGED <<frame_idx, frame_buffer, terminate_requested, fb_mapped,
                   sleep_req, ticks, decodes_after_term>>
    /\ UNCHANGED <<cvars, bvars>>
    /\ UNCHANGED <<kvars, svars>>

\* if (terminate_requested) break
TermCheck ==
    /\ pc = "term_check"
    /\ pc' = IF TerminateSeen(terminate_requested) THEN "cleanup" ELSE "advance"
    /\ UNCHANGED <<frame_idx, frame_buffer, terminate_requested, fbmem,
                   fb_mapped, sleep_req>>
    /\ UNCHANGED <<cvars, bvars, hvars>>
    /\ UNCHANGED <<kvars, svars>>

\* frame_idx++
Advance ==
    /\ pc = "advance"
    /\ frame_idx' = frame_idx + 1
    /\ pc' = "wrap_check"
    /\ UNCHANGED <<frame_buffer, terminate_requested, fbmem, fb_mapped, sleep_req>>
    /\ UNCHANGED <<cvars, bvars, hvars>>
    /\ UNCHANGED <<kvars, svars>>

\* if (frame_idx >= NFRAMES): wrap to 0 (the DRM engine reloads frame 0
\* here) or, with LOOP 0, enter the hold loop
WrapCheck ==
    /\ pc = "wrap_check"
    /\ IF CursorAtEnd(frame_idx, NFRAMES)
       THEN IF LoopEnabled(LOOP)
            THEN /\ frame_idx' = 0
                 /\ pc' = "decode"
                 /\ IF sink = "drm"
                    THEN /\ frame_buffer' = drm_load_frame_0(At(frames, 0),
                                At(frame_sizes, 0), MaxPixels, frame_buffer)
                         /\ decodes_after_term' =
                                IF terminate_requested # 0
                                THEN Bump(decodes_after_term)
                                ELSE decodes_after_term
                    ELSE UNCHANGED <<frame_buffer, decodes_after_term>>
            ELSE /\ pc' = "hold_check"
                 /\ UNCHANGED <<frame_idx, frame_buffer, decodes_after_term>>
       ELSE /\ pc' = "decode"
            /\ UNCHANGED <<frame_idx, frame_buffer, decodes_after_term>>
    /\ UNCHANGED <<terminate_requested, fbmem, fb_mapped, sleep_req>>
    /\ UNCHANGED <<ticks, last_presented, blits_after_term>>
    /\ UNCHANGED <<cvars, bvars>>
    /\ UNCHANGED <<kvars, svars>>

\* apply the unit of the new cursor value to the pixel buffer
Decode ==
    /\ pc = "decode"
    /\ frame_idx < NFRAMES
    /\ frame_buffer' =
         IF sink = "fb"
         THEN FbNextFrame(COMPRESS_METHOD, frames, frame_sizes, frame_idx, frame_buffer)
         ELSE DrmNextFrame(COMPRESS_METHOD, frames, frame_sizes, frame_idx, frame_buffer)
    /\ decodes_after_term' =
         IF terminate_requested # 0 /\ (sink = "fb" \/ frame_idx > 0)
         THEN Bump(decodes_after_term) ELSE decodes_after_term
    /\ pc' = "pace"
    /\ UNCHANGED <<frame_idx, terminate_requested, fbmem, fb_mapped, sleep_req>>
    /\ UNCHANGED <<ticks, last_presented, blits_after_term>>
    /\ UNCHANGED <<cvars, bvars>>
    /\ UNCHANGED <<kvars, svars>>

\* elapsed = now - frame_start; sleep_time = FRAME_DURATION_MS - elapsed;
\* sleep_ms is called only for a positive sleep_time
Pace ==
    /\ pc = "pace"
    /\ \E t \in ElapsedVals :
         LET sleep_time == FRAME_DURATION_MS - t
         IN  /\ elapsed' = t
             /\ IF sleep_time > 0
                THEN /\ sleep_req' = sleep_time
                     /\ sleep_ms_arg' = sleep_time
                     /\ slept' = 0
                     /\ pc' = "sleep"
                     /\ UNCHANGED ticks
                ELSE /\ sleep_req' = 0
                     /\ pc' = "loop_check"
                     /\ ticks' = (ticks + 1) % NFRAMES
                     /\ UNCHANGED <<sleep_ms_arg, slept>>
    /\ UNCHANGED kvars
    /\ UNCHANGED <<frame_idx, frame_buffer, terminate_requested, fbmem, fb_mapped>>
    /\ UNCHANGED <<last_presented, blits_after_term, decodes_after_term>>
    /\ UNCHANGED <<cvars, bvars>>

SleepPcs == {"sleep", "hold_sleep", "static_sleep"}

AfterSleep(p) ==
    IF p = "sleep" THEN "loop_check"
    ELSE IF p = "hold_sleep" THEN "hold_check"
    ELSE "static_check"

\* nanosleep returns 0: the requested time has passed
NanosleepDone ==
    /\ pc \in SleepPcs
    /\ pc' = AfterSleep(pc)
    /\ sleep_req' = 0
    /\ slept' = slept + sleep_req
    /\ ticks' = IF pc = "sleep" THEN (ticks + 1) % NFRAMES ELSE ticks
    /\ UNCHANGED <<kvars, elapsed, sleep_ms_arg>>
    /\ UNCHANGED <<frame_idx, frame_buffer, terminate_requested, fbmem, fb_mapped>>
    /\ UNCHANGED <<last_presented, blits_after_term, decodes_after_term>>
    /\ UNCHANGED <<cvars, bvars>>

\* the hold loop and the static wait written as while (1) sleep_ms(1000)
WaitCheck_forever ==
    /\ pc \in {"hold_check", "static_check"}
    /\ pc' = (IF pc = "hold_check" THEN "hold_sleep" ELSE "static_sleep")
    /\ sleep_req' = HOLD_SLEEP_MS
    /\ sleep_ms_arg' = HOLD_SLEEP_MS
    /\ slept' = 0
    /\ UNCHANGED <<kvars, elapsed>>
    /\ UNCHANGED <<frame_idx, frame_buffer, terminate_requested, fbmem, fb_mapped>>
    /\ UNCHANGED <<cvars, bvars, hvars>>

\* the hold loop and the static wait: while (!terminate_requested) sleep_ms(1000)
WaitCheck ==
    /\ pc \in {"hold_check", "static_check"}
    /\ IF TerminateSeen(terminate_requested)
       THEN pc' = "cleanup" /\ sleep_req' = 0 /\ UNCHANGED <<sleep_ms_arg, slept>>
       ELSE /\ pc' = (IF pc = "hold_check" THEN "hold_sleep" ELSE "static_sleep")
            /\ sleep_req' = HOLD_SLEEP_MS
            /\ sleep_ms_arg' = HOLD_SLEEP_MS
            /\ slept' = 0
    /\ UNCHANGED <<kvars, elapsed>>
    /\ UNCHANGED <<frame_idx, frame_buffer, terminate_requested, fbmem, fb_mapped>>
    /\ UNCHANGED <<cvars, bvars, hvars>>

\* static image: one blit, then the wait
StaticBlit ==
    /\ pc = "static_blit"
    /\ fbmem' = Composite(sink, bits_per_pixel, fbmem, frame_buffer)
    /\ pc' = "static_check"
    /\ last_presented' = frame_idx
    /\ UNCHANGED <<frame_idx, frame_buffer, terminate_requested, fb_mapped, sleep_req>>
    /\ UNCHANGED <<ticks, blits_after_term, decodes_after_term>>
    /\ UNCHANGED <<cvars, bvars>>
    /\ UNCHANGED <<kvars, svars>>

\* graceful cleanup: clear the surface to black
Cleanup ==
    /\ pc = "cleanup"
    /\ fbmem' = CleanupClear(fbmem, FbSize(bits_per_pixel))
    /\ pc' = "release"
    /\ UNCHANGED <<frame_idx, frame_buffer, terminate_requested, fb_mapped, sleep_req>>
    /\ UNCHANGED <<cvars, bvars, hvars>>
    /\ UNCHANGED <<kvars, svars>>

\* munmap of the surface and close (drm_cleanup on DRM), then return 0
Release ==
    /\ pc = "release"
    /\ fb_mapped' = FALSE
    /\ pc' = "exited"
    /\ UNCHANGED <<frame_idx, frame_buffer, terminate_requested, fbmem, sleep_req>>
    /\ UNCHANGED <<cvars, bvars, hvars>>
    /\ exit_status' = 0
    /\ UNCHANGED <<cmdline, svars, gvars>>

\* SIGTERM or SIGINT delivered: signal_handler sets the flag.  A nanosleep in
\* progress returns early: sleep_ms of the framebuffer engine calls it again
\* with the time left, sleep_ms of the DRM engine returns.
Signal ==
    /\ pc \notin {"start", "disabled", "exited"}
    /\ terminate_requested' = 1
    /\ IF pc \in SleepPcs
       THEN IF sink = "fb"
            THEN /\ \E rem \in RemVals(sleep_req) :
                      /\ sleep_req' = rem
                      /\ slept' = slept + (sleep_req - rem)
                 /\ UNCHANGED <<pc, ticks>>
            ELSE /\ \E rem \in RemVals(sleep_req) :
                      slept' = slept + (sleep_req - rem)
                 /\ sleep_req' = 0
                 /\ pc' = AfterSleep(pc)
                 /\ ticks' = IF pc = "sleep" THEN (ticks + 1) % NFRAMES ELSE ticks
       ELSE UNCHANGED <<pc, sleep_req, ticks, slept>>
    /\ UNCHANGED <<kvars, elapsed, sleep_ms_arg>>
    /\ UNCHANGED <<frame_idx, frame_buffer, fbmem, fb_mapped>>
    /\ UNCHANGED <<last_presented, blits_after_term, decodes_after_term>>
    /\ UNCHANGED <<cvars, bvars>>

\* the steps of main
MainStep ==
    \/ KillSwitch
    \/ Startup
    \/ LoopCheck
    \/ Blit
    \/ TermCheck
    \/ Advance
    \/ WrapCheck
    \/ Decode
    \/ Pace
    \/ NanosleepDone
    \/ WaitCheck
    \/ StaticBlit
    \/ Cleanup
    \/ Release

Next ==
    \/ MainStep
    \/ Signal

Spec == Init /\ [][Next]_vars

\* the start of main on every boot parameter text
KillInit ==
    /\ EngineInit
    /\ DISPLAY_MODE = 0 /\ NFRAMES = 1 /\ LOOP = 1 /\ COMPRESS_METHOD = 0
    /\ bits_per_pixel = 32
    /\ cmdline \in TextsOf(MaxParts)

KillNext ==
    \/ KillSwitch
    \/ Startup
    \/ Signal

SpecKill == KillInit /\ [][KillNext]_vars

\* the auto mode on animations of short frames, of long frames and of frames
\* of more pixels than a 16-bit index reaches
BigPixels == 65536
BigSizes == {513, 1024}         \* RLE sizes of a frame of BigPixels pixels
\* frames of p pixels: black, first pixel lit, all lit
SelectFrames(p) == {[i \in 1..p |-> IF i <= k THEN 2016 ELSE 0] : k \in {0, 1, p}}

SelectInit ==
    /\ CodecIdle /\ palette = <<>> /\ num_colors = 0
    /\ sink = "none" /\ DISPLAY_MODE = 0 /\ LOOP = 1
    /\ NFRAMES \in 1..MaxFrames
    /\ COMPRESS_METHOD = COMPRESS_AUTO
    /\ frame_pixels \in {MaxLen, LongLen, BigPixels}
    /\ src_frames \in (IF frame_pixels = BigPixels THEN {<<>>}
                       ELSE SeqsOfLen(SelectFrames(frame_pixels), NFRAMES))
    /\ frames = <<>> /\ frame_sizes = <<>> /\ bits_per_pixel = 0
    /\ pos_x = 0 /\ pos_y = 0
    /\ test_sizes = <<>>
    /\ pc = "generate" /\ frame_idx = 0 /\ frame_buffer = <<>>
    /\ terminate_requested = 0 /\ fbmem = <<>> /\ fb_mapped = FALSE
    /\ sleep_req = 0
    /\ ticks = 0 /\ last_presented = -1
    /\ blits_after_term = 0 /\ decodes_after_term = 0
    /\ cmdline = <<>> /\ exit_status = -1
    /\ ToolsIdle
    /\ elapsed = 0 /\ sleep_ms_arg = 0 /\ slept = 0

\* if (compress_method == COMPRESS_AUTO) { ... compress_method = best_method; }
\* The RLE sizes of frames of BigPixels frame_pixels are inputs; every other size is
\* the length of the encoder's output.
AutoSelect ==
    /\ pc = "generate"
    /\ COMPRESS_METHOD = COMPRESS_AUTO
    /\ \E big \in (IF frame_pixels = BigPixels
                  THEN [1..2 -> [1..(NFRAMES - 1) -> BigSizes]] ELSE {<<>>}) :
         LET Measured(m) ==
                 [f \in 1..(NFRAMES - 1) |->
                     IF frame_pixels = BigPixels
                     THEN IF method_ids[m] = COMPRESS_SPARSE
                          THEN Len(compress_sparse_xor(<<>>, <<>>, frame_pixels))
                          ELSE big[(m + 1) \div 2][f]
                     ELSE TestEncode(method_ids[m], src_frames, f, frame_pixels)]
             sizes == [m \in 1..3 |-> Measured(m)]
         IN  /\ test_sizes' = sizes
             /\ COMPRESS_METHOD' = AutoLoop(0, SIZE_MAX, COMPRESS_RLE_XOR, 2 * frame_pixels, sizes)
    /\ pc' = "selected"
    /\ UNCHANGED <<sink, DISPLAY_MODE, LOOP, NFRAMES, src_frames, frames, frame_sizes,
                   bits_per_pixel, pos_x, pos_y, frame_pixels>>
    /\ UNCHANGED <<frame_idx, frame_buffer, terminate_requested, fbmem, fb_mapped,
                   sleep_req>>
    /\ UNCHANGED <<cvars, hvars, kvars, svars>>

SelectNext == AutoSelect

SpecSelect == SelectInit /\ [][SelectNext]_vars

\* unit f of the emitted table: frame 0 raw, frames 1 .. N-1 by the switch on
\* compress_method (default: Delta RLE)
EmitUnit(method, src, f, count) ==
    IF f = 0 THEN compress_raw_direct(At(src, 0), count)
    ELSE IF method = COMPRESS_RLE_XOR
    THEN compress_rle_xor(At(src, f), At(src, f - 1), count)
    ELSE IF method = COMPRESS_RLE_DIRECT THEN compress_rle_direct(At(src, f), count)
    ELSE IF method = COMPRESS_SPARSE
    THEN compress_sparse_xor(At(src, f), At(src, f - 1), count)
    ELSE IF method = COMPRESS_RAW THEN compress_raw_direct(At(src, f), count)
    ELSE compress_rle_xor(At(src, f), At(src, f - 1), count)

\* the generator run for every method option, then the engine's load of
\* frame 0 over a pixel buffer with earlier contents (kept in prev)
EmitInit ==
    /\ op = "none" /\ cpc = "idle"
    /\ curr = <<>> /\ out = <<>> /\ out_len = 0 /\ indices = <<>> /\ dec = <<>>
    /\ palette = <<>> /\ num_colors = 0
    /\ sink = "none" /\ DISPLAY_MODE = 0 /\ LOOP = 1
    /\ NFRAMES \in 1..MaxFrames
    /\ COMPRESS_METHOD \in {COMPRESS_RLE_XOR, COMPRESS_RLE_DIRECT, COMPRESS_SPARSE,
                            COMPRESS_RAW, COMPRESS_AUTO}
    /\ frame_pixels \in {MaxLen, LongLen}
    /\ src_frames \in SeqsOfLen(SelectFrames(frame_pixels), NFRAMES)
    /\ prev \in SelectFrames(frame_pixels)
    /\ frames = <<>> /\ frame_sizes = <<>> /\ bits_per_pixel = 0
    /\ pos_x = 0 /\ pos_y = 0
    /\ test_sizes = <<>>
    /\ pc = "generate" /\ frame_idx = 0 /\ frame_buffer = prev
    /\ terminate_requested = 0 /\ fbmem = <<>> /\ fb_mapped = FALSE
    /\ sleep_req = 0
    /\ ticks = 0 /\ last_presented = -1
    /\ blits_after_term = 0 /\ decodes_after_term = 0
    /\ cmdline = <<>> /\ exit_status = -1
    /\ ToolsIdle
    /\ elapsed = 0 /\ sleep_ms_arg = 0 /\ slept = 0

\* frame 0 raw, then the delta frames, into the frame table
EmitFrames ==
    /\ \/ pc = "generate" /\ COMPRESS_METHOD # COMPRESS_AUTO
       \/ pc = "selected"
    /\ frames' = [f \in 1..NFRAMES |->
                    EmitUnit(COMPRESS_METHOD, src_frames, f - 1, frame_pixels)]
    /\ frame_sizes' = [f \in 1..NFRAMES |-> Len(frames'[f])]
    /\ pc' = "emitted"
    /\ UNCHANGED <<sink, DISPLAY_MODE, LOOP, NFRAMES, COMPRESS_METHOD, src_frames,
                   bits_per_pixel, pos_x, pos_y, frame_pixels, test_sizes>>
    /\ UNCHANGED <<frame_idx, frame_buffer, terminate_requested, fbmem, fb_mapped,
                   sleep_req>>
    /\ UNCHANGED <<cvars, hvars, kvars, svars>>

\* load_frame_0(frames[0], frame_sizes[0]) in an engine built for these frames
LoadFrame0 ==
    /\ pc = "emitted"
    /\ frame_buffer' = load_frame_0(At(frames, 0), At(frame_sizes, 0), frame_pixels,
                                    frame_buffer)
    /\ pc' = "loaded"
    /\ UNCHANGED <<frame_idx, terminate_requested, fbmem, fb_mapped, sleep_req>>
    /\ UNCHANGED <<cvars, bvars, hvars, kvars, svars>>

EmitNext ==
    \/ AutoSelect
    \/ EmitFrames
    \/ LoadFrame0

SpecEmit == EmitInit /\ [][EmitNext]_vars

\* the animation of the liveness runs: frame f is black up to pixel f mod 2
LiveInit ==
    /\ Init
    /\ \A f \in 1..NFRAMES :
         src_frames[f] = [i \in 1..MaxPixels |-> IF i <= f % 2 THEN 0 ELSE 2016]

\* the process keeps running and sleeps return
SpecLive == LiveInit /\ [][Next]_vars /\ WF_vars(MainStep)

----------------------------------------------------------------------------
(* blit_frame called once, for every depth and every position of the frame *)

BlitW == 2              \* width of the composited frame
BlitH == 2              \* height of the composited frame

\* pixel k of the composited frame: its three components differ from each
\* other and from those of every other pixel
BlitPixel(k) == 2048 * (k + 1) + 32 * (2 * k + 3) + (k + 17)

\* r_off, g_off, b_off as main computes them for the depth
RedOff(bpp) == IF bpp = 24 THEN 2 ELSE 16
GreenOff(bpp) == IF bpp = 24 THEN 1 ELSE 8
BlueOff(bpp) == 0

BlitInit ==
    /\ CodecIdle
    /\ sink = "fb" /\ DISPLAY_MODE = 0 /\ LOOP = 0 /\ NFRAMES = 0
    /\ COMPRESS_METHOD = 0 /\ src_frames = <<>> /\ frames = <<>>
    /\ frame_sizes = <<>> /\ palette = <<>> /\ num_colors = 0
    /\ bits_per_pixel \in {16, 24, 32}
    /\ frame_pixels = BlitW * BlitH /\ test_sizes = <<>>
    /\ pos_x \in (0 - BlitW - 1)..(XRES + 1)
    /\ pos_y \in (0 - BlitH - 1)..(YRES + 1)
    /\ pc = "blit_call"
    /\ frame_idx = 0
    /\ frame_buffer = [k \in 1..(BlitW * BlitH) |-> BlitPixel(k - 1)]
    /\ terminate_requested = 0
    /\ \E b \in ScreenBytes : fbmem = [o \in 0..(FbSize(bits_per_pixel) - 1) |-> b]
    /\ fb_mapped = TRUE
    /\ sleep_req = 0
    /\ ticks = 0 /\ last_presented = -1
    /\ blits_after_term = 0 /\ decodes_after_term = 0
    /\ cmdline = <<>> /\ exit_status = -1
    /\ ToolsIdle
    /\ elapsed = 0 /\ sleep_ms_arg = 0 /\ slept = 0

BlitOnce ==
    /\ pc = "blit_call"
    /\ fbmem' = blit_frame(fbmem, XRES, YRES, LineLength(bits_per_pixel),
                           bits_per_pixel, frame_buffer, BlitW, BlitH, pos_x, pos_y,
                           RedOff(bits_per_pixel), GreenOff(bits_per_pixel),
                           BlueOff(bits_per_pixel))
    /\ pc' = "blit_ret"
    /\ UNCHANGED <<frame_idx, frame_buffer, terminate_requested, fb_mapped, sleep_req>>
    /\ UNCHANGED <<cvars, bvars, hvars, kvars, svars>>

BlitNext == BlitOnce

SpecBlit == BlitInit /\ [][BlitNext]_vars

SpecCodec == CodecInit /\ [][CodecNext]_vars

\* the two Delta RLE encoders on the frames of the codec runs
TokenInit ==
    /\ op \in {"rle_xor", "delta_v2"}
    /\ cpc = "input"
    /\ \E fp \in Inputs("rle_xor") : curr = fp[1] /\ prev = fp[2]
    /\ out = <<>>
    /\ out_len = 0
    /\ palette = <<>>
    /\ num_colors = 0
    /\ indices = <<>>
    /\ dec = <<>>
    /\ EngineIdle

EncodeDeltaV2 ==
    /\ op = "delta_v2" /\ cpc = "input"
    /\ out' = compute_delta(curr, prev, Len(curr))
    /\ out_len' = Len(out')
    /\ cpc' = "encoded"
    /\ UNCHANGED <<op, curr, prev, palette, num_colors, indices, dec>>
    /\ UNCHANGED <<bvars, evars, hvars, kvars, svars>>

TokenNext ==
    \/ EncodeRleXor
    \/ EncodeDeltaV2

SpecTokens == TokenInit /\ [][TokenNext]_vars

\* the three framebuffer decoders on arbitrary units: out holds the unit and
\* two more bytes of whatever follows it in memory, prev holds the pixel
\* buffer and one more pixel of whatever follows it
MaxUnit == 6
UnitBytes == {0, 1, 2, 130}
AfterUnit == <<255, 255>>
BufferBefore == <<4369, 8738>>
AfterBuffer == <<13107>>

DecodeInit ==
    /\ op \in {"rle_xor", "rle_direct", "sparse"}
    /\ cpc = "encoded"
    /\ \E n \in 0..MaxUnit : \E unit \in SeqsOfLen(UnitBytes, n) :
          /\ out = unit \o AfterUnit
          /\ out_len = n
    /\ curr = ZeroFrame(Len(BufferBefore))
    /\ prev = BufferBefore \o AfterBuffer
    /\ palette = <<>>
    /\ num_colors = 0
    /\ indices = <<>>
    /\ dec = <<>>
    /\ EngineIdle

DecodeNext ==
    \/ DecodeRleXor
    \/ DecodeRleDirect
    \/ DecodeSparse

SpecDecode == DecodeInit /\ [][DecodeNext]_vars

\* build_palette and the decoder on images of more values than the palette
\* holds: n pixels, the values first, first + 1, ... up to `values` of them,
\* then over again.  The smallest such image goes through compress_lzss; for
\* the others the index stream is stored as literals, which is what
\* compress_lzss emits where it finds no match.
ManyColors == 300
ImageSizes == {ManyColors - 40, ManyColors, ManyColors + 4}
ImageValues == {ManyColors - 43, ManyColors - 42, ManyColors}
FirstValues == {0, 1, 255, 2016, 4096}
WideImage(n, values, first) == [i \in 1..n |-> first + ((i - 1) % values)]

\* flag byte 0xFF (or the low bits of it for the last group), then up to 8
\* literal bytes
LiteralStream(data) ==
    LET groups == (Len(data) + 7) \div 8
        GroupLen(g) == IF g < groups THEN 8 ELSE Len(data) - 8 * (groups - 1)
    IN  [k \in 1..(Len(data) + groups) |->
            LET g == ((k - 1) \div 9) + 1
                r == (k - 1) % 9
            IN  IF r = 0 THEN 2 ^ GroupLen(g) - 1 ELSE data[8 * (g - 1) + r]]

PaletteInit ==
    /\ cpc = "input"
    /\ \/ /\ op = "palette"
          /\ curr = WideImage(PALETTE_MAX + 1, PALETTE_MAX + 1, 0)
       \/ /\ op = "palette_idx"
          /\ \E n \in ImageSizes, values \in ImageValues, first \in FirstValues :
                curr = WideImage(n, values, first)
    /\ prev = ZeroFrame(Len(curr))
    /\ out = <<>>
    /\ out_len = 0
    /\ palette = <<>>
    /\ num_colors = 0
    /\ indices = <<>>
    /\ dec = <<>>
    /\ EngineIdle

BuildPalette ==
    /\ op = "palette_idx" /\ cpc = "input"
    /\ LET bp == build_palette(curr, Len(curr))
       IN  /\ palette' = bp.palette
           /\ num_colors' = bp.num_colors
           /\ indices' = bp.indices
    /\ cpc' = "built"
    /\ UNCHANGED <<op, curr, prev, out, out_len, dec>>
    /\ UNCHANGED <<bvars, evars, hvars, kvars, svars>>

ExpandLiterals ==
    /\ op = "palette_idx" /\ cpc = "built"
    /\ out' = LiteralStream(indices)
    /\ out_len' = Len(out')
    /\ dec' = decompress_palette_lzss(out', out_len', palette, num_colors,
                                      prev, Len(curr))
    /\ cpc' = "decoded"
    /\ UNCHANGED <<op, curr, prev, palette, num_colors, indices>>
    /\ UNCHANGED <<bvars, evars, hvars, kvars, svars>>

PaletteNext ==
    \/ BuildPalette
    \/ ExpandLiterals
    \/ EncodePalette
    \/ DecodePalette

SpecPalette == PaletteInit /\ [][PaletteNext]_vars

\* the Sparse encoder on short frames and on frames of about 65535 pixels,
\* unchanged or with the last pixel changed
CountsAtCap == {SPARSE_MAX_COUNT - 1, SPARSE_MAX_COUNT, SPARSE_MAX_COUNT + 1,
                SPARSE_MAX_COUNT + 2}
SparseInputs ==
    UNION {ShortFrames(n) \X ShortFrames(n) : n \in 0..MaxLen}
    \cup {<<[i \in 1..n |-> IF i = n THEN v ELSE 0], ZeroFrame(n)>> :
             n \in CountsAtCap, v \in LongVals}

SparseInit ==
    /\ op = "sparse"
    /\ cpc = "input"
    /\ \E fp \in SparseInputs : curr = fp[1] /\ prev = fp[2]
    /\ out = <<>>
    /\ out_len = 0
    /\ palette = <<>>
    /\ num_colors = 0
    /\ indices = <<>>
    /\ dec = <<>>
    /\ EngineIdle

SparseNext == EncodeSparse

SpecSparse == SparseInit /\ [][SparseNext]_vars

----------------------------------------------------------------------------
\* C1: decoding the Delta RLE encoding of (curr, prev) into a buffer that
\* holds prev leaves the buffer equal to curr at every position.
C1_RleXorRoundTrip ==
    (op = "rle_xor" /\ cpc = "decoded") => dec = curr

\* a decoded long frame whose encoding starts with a capped skip of 128 and
\* goes on with changed pixels
C1_Witness ==
    /\ op = "rle_xor" /\ cpc = "decoded"
    /\ Len(curr) = LongLen
    /\ out[1] = 255
    /\ dec # prev
    /\ dec = curr

\* C2: build_palette, compress_lzss, then decompress_palette_lzss with the
\* same palette reproduces the image pixel for pixel.
C2_PaletteLzssRoundTrip ==
    (op = "palette" /\ cpc = "decoded") => dec = curr

\* C3: decoding the Direct RLE encoding of an image, from any initial buffer
\* contents, leaves the buffer equal to the image at every position.
C3_RleDirectRoundTrip ==
    (op = "rle_direct" /\ cpc = "decoded") => dec = curr

\* a decoded image with a capped repeat run, over a buffer that differed
C3_Witness ==
    /\ op = "rle_direct" /\ cpc = "decoded"
    /\ Len(curr) = LongLen
    /\ out[1] = 255
    /\ prev # curr
    /\ dec = curr

\* C4: decoding the Sparse encoding of (curr, prev) into a buffer that holds
\* prev leaves the buffer equal to curr, also when every pixel changed.
C4_SparseRoundTrip ==
    (op = "sparse" /\ cpc = "decoded") => dec = curr

\* a decoded frame in which every pixel changed
C4_Witness ==
    /\ op = "sparse" /\ cpc = "decoded"
    /\ Len(curr) = LongLen
    /\ Word16(out[1], out[2]) = LongLen
    /\ dec = curr

----------------------------------------------------------------------------
(* Playback claims *)

SourceFrame(k) == At(src_frames, k)

Blank(mem) == \A o \in DOMAIN mem : mem[o] = 0

AfterLoop == {"cleanup", "release", "exited"}

\* C5: with looping enabled, at every composite of the framebuffer engine
\* the pixel buffer equals source frame (k mod N), k the number of ticks
\* completed; every delta is applied to a buffer holding the preceding
\* source frame, and the unit decoded at cursor 0 is frame 0's raw unit,
\* whatever the buffer held.
C5_LoopPresentsSourceFrames ==
    /\ [](sink = "fb" /\ IsAnim /\ LOOP # 0 =>
            /\ pc = "blit" =>
                 /\ frame_idx = ticks
                 /\ frame_buffer = SourceFrame(ticks % NFRAMES)
            /\ pc = "decode" /\ frame_idx > 0 =>
                 frame_buffer = SourceFrame(frame_idx - 1))
    /\ [][(sink = "fb" /\ IsAnim /\ LOOP # 0 /\ pc = "decode"
             /\ pc' = "pace" /\ frame_idx = 0)
          => (frame_buffer' = load_frame_0(At(frames, 0), At(frame_sizes, 0),
                                           MaxPixels, ZeroFrame(MaxPixels)))]_vars

\* a second pass has begun: frame N-1 was presented, frame 0 is back
C5_Witness ==
    /\ sink = "fb" /\ IsAnim /\ LOOP # 0
    /\ NFRAMES = MaxFrames
    /\ pc = "blit" /\ frame_idx = 0 /\ last_presented = NFRAMES - 1
    /\ frame_buffer = SourceFrame(0)
    /\ SourceFrame(0) # SourceFrame(NFRAMES - 1)

\* C6: with loop disabled, once frame N-1 has been presented no unit is
\* decoded again: the pixel buffer and the surface stay as presented until the
\* cleanup clear (the buffer is source frame N-1 on the framebuffer engine,
\* and on the DRM engine for the methods it decodes: all but sparse), and the
\* engine never is in the displaying or decoding states again.
C6_HoldLastFrame ==
    /\ [](IsAnim /\ LOOP = 0 /\ last_presented = NFRAMES - 1 =>
            /\ pc \in {"term_check", "advance", "wrap_check", "hold_check",
                       "hold_sleep"} \cup AfterLoop
            /\ sink = "fb" \/ COMPRESS_METHOD # 2 =>
                 frame_buffer = SourceFrame(NFRAMES - 1))
    /\ [][(IsAnim /\ LOOP = 0 /\ last_presented = NFRAMES - 1)
          => (frame_buffer' = frame_buffer
              /\ decodes_after_term' = decodes_after_term
              /\ last_presented' = last_presented
              /\ (pc # "cleanup" => fbmem' = fbmem))]_vars

C6_Witness ==
    /\ IsAnim /\ LOOP = 0
    /\ NFRAMES = MaxFrames
    /\ last_presented = NFRAMES - 1
    /\ pc = "hold_sleep"
    /\ terminate_requested = 0
    /\ SourceFrame(0) # SourceFrame(NFRAMES - 1)

\* C7 as stated: the frame cursor is in [0, N) in every reachable state.
C7_CursorBelowN == frame_idx \in 0..(NFRAMES - 1)

\* C7: the frame cursor is in [0, N]; it is below N whenever a unit is
\* composited or decoded; it equals N only between the increment and the
\* wrap check and, with loop disabled, in the hold loop and the exit after it.
C7_CursorRange ==
    /\ frame_idx \in 0..NFRAMES
    /\ pc \in {"loop_check", "blit", "term_check", "advance", "decode", "pace",
               "sleep", "static_blit", "static_check", "static_sleep"} =>
         frame_idx < NFRAMES
    /\ frame_idx = NFRAMES =>
         \/ pc = "wrap_check"
         \/ LOOP = 0 /\ pc \in {"hold_check", "hold_sleep"} \cup AfterLoop

C7_Witness ==
    /\ pc = "hold_sleep"
    /\ frame_idx = NFRAMES
    /\ NFRAMES > 1

\* C8: a termination request, whenever it arrives, leads to cleanup provided
\* the process keeps running and sleeps return; the request itself changes
\* neither the pixel buffer nor the surface nor the position of main outside
\* a sleep, and cleanup is entered only from a test of the flag.
C8_TerminationReachesCleanup ==
    /\ (terminate_requested # 0) ~> (pc \in AfterLoop)
    /\ [][(terminate_requested' # terminate_requested)
          => (frame_buffer' = frame_buffer
              /\ fbmem' = fbmem
              /\ frame_idx' = frame_idx
              /\ (pc' = pc \/ pc \in SleepPcs))]_vars
    /\ [][(pc' = "cleanup" /\ pc # "cleanup")
          => (pc \in {"loop_check", "term_check", "hold_check", "static_check"}
              /\ terminate_requested # 0)]_vars

\* the request came during the hold loop and cleanup was reached
C8_Witness ==
    /\ pc = "cleanup"
    /\ terminate_requested # 0
    /\ frame_idx = NFRAMES
    /\ sink = "fb"

\* C9: after the termination flag is set the loop performs at most one more
\* decode and at most one more composite.
C9_OneMoreCycle ==
    /\ decodes_after_term <= 1
    /\ blits_after_term <= 1

C9_Witness ==
    /\ pc = "cleanup"
    /\ decodes_after_term = 1
    /\ frame_buffer # SourceFrame(0)

\* C10: on every exit the whole surface is zero once the clear has run, the
\* clear runs while the surface is still mapped, and nothing writes to the
\* surface after it.
C10_ClearBeforeRelease ==
    /\ [](pc \in {"release", "exited"} => Blank(fbmem))
    /\ [](~fb_mapped /\ pc \notin {"start", "disabled"} => pc = "exited" /\ Blank(fbmem))
    /\ [][(pc \in {"release", "exited"}) => (fbmem' = fbmem)]_vars
    /\ [][(fbmem' # fbmem) => fb_mapped']_vars

\* a non-black frame was on the surface; after the exit the surface is black
C10_Witness ==
    /\ pc = "exited"
    /\ ~fb_mapped
    /\ last_presented >= 0
    /\ sink = "fb"
    /\ \E i \in 1..Len(frame_buffer) : frame_buffer[i] # 0
    /\ Blank(fbmem)

----------------------------------------------------------------------------
(* Sleep, compositor, kill switch and generator claims *)

\* C11: when the pacing sleep has returned, the time slept in that sleep_ms
\* call is at least the time requested, on both display sinks.
C11_SleepNotShortened ==
    (pc = "loop_check" /\ sink \in {"fb", "drm"}) => slept >= sleep_ms_arg

\* C20: on a tick that decoded a frame, with D the frame interval and T the
\* time measured from the tick start to the end of decoding: when T < D
\* sleep_ms is called with D - T and the engine has slept exactly D - T when
\* that call returns; when T >= D no sleep call is made and the next tick
\* starts at once.
C20_PacingExact ==
    /\ [][(pc = "pace" /\ pc' # "pace") =>
             IF elapsed' < FRAME_DURATION_MS
             THEN pc' = "sleep" /\ sleep_ms_arg' = FRAME_DURATION_MS - elapsed'
             ELSE pc' = "loop_check" /\ UNCHANGED <<sleep_ms_arg, slept>>]_vars
    /\ [][(pc = "sleep" /\ pc' = "loop_check") =>
             slept' = FRAME_DURATION_MS - elapsed]_vars

\* the byte k of the surface pixel that shows source pixel value pixel
ExpectedByte(bpp, pixel, k) ==
    IF bpp = 16 THEN ByteOf(pixel, k)
    ELSE IF bpp = 32
    THEN ByteOf(ScalarLayout(pixel, RedOff(bpp), GreenOff(bpp), BlueOff(bpp)), k)
    ELSE IF k = RedOff(bpp) THEN ((pixel \div 2048) % 32) * 8
    ELSE IF k = GreenOff(bpp) THEN ((pixel \div 32) % 64) * 4
    ELSE (pixel % 32) * 8

\* C12: blit_frame writes exactly the surface pixels of the intersection of
\* the frame rectangle at (x, y) with the surface, each with the conversion
\* of source pixel (col - x, row - y), and leaves every other byte unchanged.
C12_BlitClipsToSurface ==
    [][(pc = "blit_call" /\ pc' = "blit_ret")
       => (\A o \in DOMAIN fbmem :
             LET bytes == bits_per_pixel \div 8
                 row == o \div LineLength(bits_per_pixel)
                 col == (o % LineLength(bits_per_pixel)) \div bytes
                 k == (o % LineLength(bits_per_pixel)) % bytes
             IN  IF /\ pos_x <= col /\ col < pos_x + BlitW
                    /\ pos_y <= row /\ row < pos_y + BlitH
                 THEN fbmem'[o] = ExpectedByte(bits_per_pixel,
                          At(frame_buffer, (row - pos_y) * BlitW + (col - pos_x)), k)
                 ELSE fbmem'[o] = fbmem[o])]_vars

\* the parameters of a boot parameter text: the maximal runs of characters
\* other than space, tab and newline, as pairs of first and last position
ParamsOf(text) ==
    {ij \in (1..Len(text)) \X (1..Len(text)) :
        /\ ij[1] <= ij[2]
        /\ \A k \in ij[1]..ij[2] : text[k] \notin {" ", "\t", "\n"}
        /\ ij[1] = 1 \/ text[ij[1] - 1] \in {" ", "\t", "\n"}
        /\ ij[2] = Len(text) \/ text[ij[2] + 1] \in {" ", "\t", "\n"}}

HasSwitch(text) ==
    \E ij \in ParamsOf(text) : SubSeq(text, ij[1], ij[2]) \in {NoSplash, XbootsplashOff}

\* C13: main leaves through the kill switch exactly when some parameter of
\* the boot parameter text is nosplash or xbootsplash=0; it then exits with
\* status 0, with no handler installed (no signal flag is ever set), no pixel
\* buffer reserved, the sink not opened and the surface never written.
C13_KillSwitchExact ==
    /\ pc # "start" => (pc = "disabled" <=> HasSwitch(cmdline))
    /\ pc = "disabled" =>
         /\ exit_status = 0
         /\ terminate_requested = 0
         /\ frame_buffer = <<>>
         /\ ~fb_mapped
         /\ \A o \in DOMAIN fbmem : fbmem[o] \in ScreenBytes

\* the engine left through the kill switch on a text whose first parameter
\* is not a switch
C13_Witness ==
    /\ pc = "disabled"
    /\ Len(cmdline) > 2
    /\ cmdline[1] = "q"
    /\ IsSep(cmdline[2])

\* the sum of the sizes of sz
RECURSIVE SumOf(_)
SumOf(sz) == IF sz = <<>> THEN 0 ELSE sz[1] + SumOf(Tail(sz))

\* the tested methods none of whose frames was measured with size zero
ValidTested == {m \in 1..3 : \A f \in 1..Len(test_sizes[m]) : test_sizes[m][f] # 0}

\* raw frame 0 plus the encodings of frames 1 .. N-1 under tested method m
TotalTested(m) == 2 * frame_pixels + SumOf(test_sizes[m])

\* C14: the auto mode selects Delta RLE, Sparse or Direct RLE, a method that
\* is valid and whose total is the least of the valid methods; Delta RLE when
\* it is one of the least; never Raw, never Palette.
C14_AutoSelectsSmallest ==
    pc = "selected" =>
        /\ COMPRESS_METHOD \in {COMPRESS_RLE_XOR, COMPRESS_SPARSE, COMPRESS_RLE_DIRECT}
        /\ COMPRESS_METHOD \notin {COMPRESS_RAW, COMPRESS_PALETTE_LZSS}
        /\ \E m \in ValidTested :
              /\ method_ids[m] = COMPRESS_METHOD
              /\ \A o \in ValidTested : TotalTested(m) <= TotalTested(o)
        /\ (1 \in ValidTested /\ \A o \in ValidTested : TotalTested(1) <= TotalTested(o))
              => COMPRESS_METHOD = COMPRESS_RLE_XOR

\* Sparse measured a frame as zero bytes, so its total would have been the
\* least, and another method was selected
C14_Witness ==
    /\ pc = "selected"
    /\ 2 \notin ValidTested
    /\ TotalTested(2) < TotalTested(1)
    /\ COMPRESS_METHOD # COMPRESS_SPARSE

\* C15: compress_sparse_xor returns length 0 and no bytes for every frame of
\* more than 65535 pixels, and at least the 2-byte header for every frame of
\* at most 65535 pixels.
C15_SparseCountCap ==
    (op = "sparse" /\ cpc = "encoded") =>
        /\ Len(curr) > 65535 => (out_len = 0 /\ out = <<>>)
        /\ Len(curr) <= 65535 => (out_len >= 2 /\ Len(out) = out_len)

\* a frame of 65536 pixels was refused, with its last pixel changed
C15_Witness ==
    /\ op = "sparse" /\ cpc = "encoded"
    /\ Len(curr) = 65536
    /\ curr[65536] # prev[65536]
    /\ out_len = 0

\* the tokens of a Delta RLE unit from position p (1-based) on, covered
\* pixels so far: every token is a skip of 1..128 or a literal of 1..127 with
\* that many nonzero 2-byte values, and the unit ends with its only token
\* byte 0x00 when count pixels are covered
RECURSIVE LegalTokens(_, _, _, _)
LegalTokens(unit, p, covered, count) ==
    IF p > Len(unit) THEN FALSE
    ELSE IF unit[p] = 0 THEN p = Len(unit) /\ covered = count
    ELSE IF unit[p] >= 128
    THEN /\ unit[p] - 127 \in 1..128
         /\ LegalTokens(unit, p + 1, covered + unit[p] - 127, count)
    ELSE /\ unit[p] \in 1..127
         /\ p + 2 * unit[p] <= Len(unit)
         /\ \A j \in 1..unit[p] :
               /\ unit[p + 2 * j - 1] \in 0..255 /\ unit[p + 2 * j] \in 0..255
               /\ unit[p + 2 * j - 1] + 256 * unit[p + 2 * j] # 0
         /\ LegalTokens(unit, p + 1 + 2 * unit[p], covered + unit[p], count)

\* C16: the output of compress_rle_xor and of compute_delta is a sequence of
\* legal skip and literal tokens whose run lengths sum to count, closed by
\* the only 0x00 in token position.
C16_TokensLegal ==
    (op \in {"rle_xor", "delta_v2"} /\ cpc = "encoded") =>
        /\ out_len = Len(out)
        /\ LegalTokens(out, 1, 0, Len(curr))

\* a long frame whose unit opens with a literal of 127 values
C16_Witness ==
    /\ op \in {"rle_xor", "delta_v2"} /\ cpc = "encoded"
    /\ Len(curr) = LongLen
    /\ out[1] = 127
    /\ out[out_len] = 0

\* A Delta RLE unit u (exactly the declared bytes) read one value at a time
\* from position p (1-based), n values of the current literal still to come:
\* nothing more is done once a value or a token is not wholly inside u, or the
\* pixel buffer of max_pixels pixels is full.
RECURSIVE RefXor(_, _, _, _, _, _)
RefXor(u, p, px, n, max_pixels, fb) ==
    IF n > 0
    THEN IF px >= max_pixels \/ p + 1 > Len(u) THEN fb
         ELSE RefXor(u, p + 2, px + 1, n - 1, max_pixels,
                  [fb EXCEPT ![px + 1] = Xor16(fb[px + 1], u[p] + 256 * u[p + 1])])
    ELSE IF p > Len(u) \/ u[p] = 0 THEN fb
    ELSE IF u[p] >= 128
    THEN RefXor(u, p + 1, px + (u[p] - 127), 0, max_pixels, fb)
    ELSE RefXor(u, p + 1, px, u[p], max_pixels, fb)

\* the same for a Direct RLE unit
RECURSIVE RefDirect(_, _, _, _, _, _)
RefDirect(u, p, px, n, max_pixels, fb) ==
    IF n > 0
    THEN IF px >= max_pixels \/ p + 1 > Len(u) THEN fb
         ELSE RefDirect(u, p + 2, px + 1, n - 1, max_pixels,
                  [fb EXCEPT ![px + 1] = u[p] + 256 * u[p + 1]])
    ELSE IF p > Len(u) \/ u[p] = 0 THEN fb
    ELSE IF u[p] >= 128
    THEN IF p + 2 > Len(u) THEN fb
         ELSE RefDirect(u, p + 3, px + (u[p] - 128), 0, max_pixels,
                  [k \in 1..Len(fb) |->
                      IF px < k /\ k <= px + (u[p] - 128) /\ k <= max_pixels
                      THEN u[p + 1] + 256 * u[p + 2] ELSE fb[k]])
    ELSE RefDirect(u, p + 1, px, u[p], max_pixels, fb)

\* the same for a Sparse unit, entry i of the number announced by the header
RECURSIVE RefSparse(_, _, _, _)
RefSparse(u, i, max_pixels, fb) ==
    IF Len(u) < 2 \/ i >= u[1] + 256 * u[2] \/ 2 + 4 * i + 4 > Len(u) THEN fb
    ELSE LET idx == u[3 + 4 * i] + 256 * u[4 + 4 * i]
             xor_val == u[5 + 4 * i] + 256 * u[6 + 4 * i]
         IN  RefSparse(u, i + 1, max_pixels,
                 IF idx < max_pixels
                 THEN [fb EXCEPT ![idx + 1] = Xor16(fb[idx + 1], xor_val)]
                 ELSE fb)

RefDecode(o, u, max_pixels, fb) ==
    IF o = "rle_xor" THEN RefXor(u, 1, 0, 0, max_pixels, fb)
    ELSE IF o = "rle_direct" THEN RefDirect(u, 1, 0, 0, max_pixels, fb)
    ELSE RefSparse(u, 0, max_pixels, fb)

\* the decoder of method o of the framebuffer engine
DecodeUnit(o, delta, delta_size, max_pixels, fb) ==
    IF o = "rle_xor" THEN apply_delta_rle_xor(delta, delta_size, max_pixels, fb)
    ELSE IF o = "rle_direct" THEN apply_delta_rle_direct(delta, delta_size, max_pixels, fb)
    ELSE apply_delta_sparse_xor(delta, delta_size, max_pixels, fb)

\* C17: on every byte string and declared length the three decoders leave
\* the memory after the pixel buffer untouched, produce a result no byte at
\* or after the declared length has a part in, and change nothing after the
\* first value or token that is not wholly inside the declared length.
C17_DecodeWithinBounds ==
    (op \in {"rle_xor", "rle_direct", "sparse"} /\ cpc = "decoded"
       /\ Len(prev) > Len(curr)) =>
        /\ Len(dec) = Len(prev)
        /\ \A k \in (Len(curr) + 1)..Len(prev) : dec[k] = prev[k]
        /\ dec = DecodeUnit(op, [k \in 1..Len(out) |-> IF k <= out_len THEN out[k] ELSE 0],
                             out_len, Len(curr), prev)
        /\ dec = RefDecode(op, SubSeq(out, 1, out_len), Len(curr), prev)

\* a literal of two values cut after the first value: the first pixel is
\* changed, the second is not
C17_Witness ==
    /\ op = "rle_xor" /\ cpc = "decoded"
    /\ out_len = 4
    /\ out[1] = 2
    /\ dec[1] # prev[1]
    /\ dec[2] = prev[2]

\* C18: whatever method was given or selected, unit 0 of the emitted table
\* is 2 bytes per pixel of frame 0, low byte first, and nothing else, and
\* load_frame_0 on it leaves exactly frame 0 in the pixel buffer, whatever
\* the buffer held before.
C18_ReferenceFrameRaw ==
    /\ pc \in {"emitted", "loaded"} =>
          /\ frame_sizes[1] = 2 * frame_pixels
          /\ Len(frames[1]) = 2 * frame_pixels
          /\ \A i \in 1..frame_pixels :
                /\ frames[1][2 * i - 1] = src_frames[1][i] % 256
                /\ frames[1][2 * i] = src_frames[1][i] \div 256
    /\ pc = "loaded" => frame_buffer = src_frames[1]

\* the auto mode selected Sparse, and frame 0 replaced a different buffer
C18_Witness ==
    /\ pc = "loaded"
    /\ test_sizes # <<>>
    /\ COMPRESS_METHOD = COMPRESS_SPARSE
    /\ prev # src_frames[1]
    /\ \E i \in 1..frame_pixels : src_frames[1][i] > 255
    /\ frame_buffer = src_frames[1]

\* the distinct values of an image in first-seen order: the values at the
\* positions no earlier position has the value of
FirstSeen(image) ==
    LET first == SelectSeq([i \in 1..Len(image) |-> i],
                           LAMBDA i : \A j \in 1..(i - 1) : image[j] # image[i])
    IN  [k \in 1..Len(first) |-> image[first[k]]]

\* C19: for an image of more than 256 values the palette holds exactly the
\* first 256 of them in first-seen order, every pixel of another value has
\* index 255, every other pixel the index of its value, and the decoder
\* shows the pixels of index 255 with the last palette entry, in a buffer of
\* the size of the image.
C19_PaletteOverflow ==
    (op \in {"palette", "palette_idx"} /\ cpc \in {"built", "encoded", "decoded"}) =>
        LET seen == FirstSeen(curr)
        IN  Len(seen) > 256 =>
              /\ num_colors = 256
              /\ palette = SubSeq(seen, 1, 256)
              /\ Len(indices) = Len(curr)
              /\ \A i \in 1..Len(curr) :
                    IF \E j \in 1..256 : palette[j] = curr[i]
                    THEN palette[indices[i] + 1] = curr[i]
                    ELSE indices[i] = 255
              /\ cpc = "decoded" =>
                    /\ Len(dec) = Len(curr)
                    /\ \A i \in 1..Len(curr) : indices[i] = 255 => dec[i] = palette[256]

\* an image of 300 values was decoded: its last pixel has the 300th value and
\* shows as the 256th
C19_Witness ==
    /\ op = "palette_idx" /\ cpc = "decoded"
    /\ Len(curr) = 300
    /\ curr[300] = curr[1] + 299
    /\ indices[300] = 255
    /\ dec[300] = curr[256]

----------------------------------------------------------------------------
(* Encoding tool: main of generate_splash.c *)

MODE_ANIM_SOLID == 0
MODE_ANIM_IMAGE_CENTER == 1
MODE_ANIM_IMAGE_FULL == 2
MODE_STATIC_CENTER == 3
MODE_STATIC_FULLSCREEN == 4

\* words that start with '-'
DashWords == {"-m", "-x", "-y", "-d", "-l", "-c", "-b", "-r", "-z", "-h", "-q"}

\* atoi on the words of the model: a word that is no number gives 0
Atoi(w) ==
    IF w = "1" THEN 1 ELSE IF w = "2" THEN 2 ELSE IF w = "3" THEN 3
    ELSE IF w = "4" THEN 4 ELSE 0

\* the globals before the argument loop
GenDefaults ==
    [arg_idx |-> 1, ret |-> -1, lines |-> <<>>,
     display_mode |-> 0, offset_x |-> 0, offset_y |-> 0, frame_delay_ms |-> 33,
     loop |-> 1, bg_color |-> NUL, bg_image_path |-> NUL, target |-> NUL,
     compress_method |-> COMPRESS_RLE_XOR, input_path |-> NUL]

\* the -z branch: the method named by the word, the default otherwise
MethodOf(r, method) ==
    IF method = "rle_xor" THEN [r EXCEPT !.compress_method = COMPRESS_RLE_XOR]
    ELSE IF method = "rle_direct" THEN [r EXCEPT !.compress_method = COMPRESS_RLE_DIRECT]
    ELSE IF method = "sparse" THEN [r EXCEPT !.compress_method = COMPRESS_SPARSE]
    ELSE IF method = "raw" THEN [r EXCEPT !.compress_method = COMPRESS_RAW]
    ELSE IF method = "auto" THEN [r EXCEPT !.compress_method = COMPRESS_AUTO]
    ELSE [r EXCEPT !.lines = Append(@, "Warning: Unknown compression method")]

\* one pass of the argument loop; bg_color, bg_image_path and target keep the
\* word they were given
ParseWord(args, r) ==
    LET a == At(args, r.arg_idx)
        more == r.arg_idx + 1 < Len(args)
        v == IF more THEN At(args, r.arg_idx + 1) ELSE NUL
        n == r.arg_idx + 2
    IN  IF a = "-m" /\ more THEN [r EXCEPT !.display_mode = Atoi(v), !.arg_idx = n]
        ELSE IF a = "-x" /\ more THEN [r EXCEPT !.offset_x = Atoi(v), !.arg_idx = n]
        ELSE IF a = "-y" /\ more THEN [r EXCEPT !.offset_y = Atoi(v), !.arg_idx = n]
        ELSE IF a = "-d" /\ more THEN [r EXCEPT !.frame_delay_ms = Atoi(v), !.arg_idx = n]
        ELSE IF a = "-l" /\ more THEN [r EXCEPT !.loop = Atoi(v), !.arg_idx = n]
        ELSE IF a = "-c" /\ more THEN [r EXCEPT !.bg_color = v, !.arg_idx = n]
        ELSE IF a = "-b" /\ more THEN [r EXCEPT !.bg_image_path = v, !.arg_idx = n]
        ELSE IF a = "-r" /\ more THEN [r EXCEPT !.target = v, !.arg_idx = n]
        ELSE IF a = "-z" /\ more THEN [MethodOf(r, v) EXCEPT !.arg_idx = n]
        ELSE IF a = "-h" THEN [r EXCEPT !.lines = Append(@, "Usage"), !.ret = 0]
        ELSE IF a \notin DashWords
        THEN [r EXCEPT !.input_path = a, !.arg_idx = r.arg_idx + 1]
        ELSE [r EXCEPT !.lines = Append(@, "Unknown option"), !.ret = 1]

RECURSIVE ParseLoop(_, _)
ParseLoop(args, r) ==
    IF r.ret # -1 \/ r.arg_idx >= Len(args) THEN r
    ELSE ParseLoop(args, ParseWord(args, r))

\* the argument loop and the test of input_path
ParseArgs(args) ==
    LET r == ParseLoop(args, GenDefaults)
    IN  IF r.ret = -1 /\ r.input_path = NUL
        THEN [r EXCEPT !.lines = @ \o <<"Error: No input specified", "Usage">>,
                       !.ret = 1]
        ELSE r

\* main from its first line to the test of input_path
ParseArguments ==
    /\ pc = "gen_start"
    /\ LET r == ParseArgs(argv)
       IN  /\ stderr' = stderr \o r.lines
           /\ DISPLAY_MODE' = r.display_mode
           /\ COMPRESS_METHOD' = r.compress_method
           /\ LOOP' = r.loop
           /\ pos_x' = r.offset_x
           /\ pos_y' = r.offset_y
           /\ IF r.ret = -1
              THEN pc' = "gen_preamble" /\ UNCHANGED exit_status
              ELSE pc' = "gen_exited" /\ exit_status' = r.ret
    /\ UNCHANGED <<argv, stdout, cmdline, rvars, xvars>>
    /\ UNCHANGED <<sink, NFRAMES, src_frames, frames, frame_sizes, bits_per_pixel>>
    /\ UNCHANGED <<frame_pixels, test_sizes>>
    /\ UNCHANGED <<frame_idx, frame_buffer, terminate_requested, fbmem, fb_mapped>>
    /\ UNCHANGED <<sleep_req, cvars, hvars, svars>>

\* the mode report on the diagnostic stream and the header preamble
Preamble ==
    /\ pc = "gen_preamble"
    /\ stderr' = stderr \o <<"Display mode", "Offsets", "Background color">>
    /\ stdout' = stdout \o
         <<"/* Auto-generated */", "#pragma once", "#define DISPLAY_MODE",
           "#define HORIZONTAL_OFFSET", "#define VERTICAL_OFFSET",
           "#define BACKGROUND_COLOR">> \o
         (IF DISPLAY_MODE \in {MODE_ANIM_SOLID, MODE_ANIM_IMAGE_CENTER,
                               MODE_ANIM_IMAGE_FULL}
          THEN <<"#define FRAME_DURATION_MS", "#define LOOP">> ELSE <<>>)
    /\ pc' = "gen_mode"
    /\ UNCHANGED <<argv, cmdline, exit_status, rvars, xvars>>
    /\ UNCHANGED <<cvars, bvars, hvars, svars>>
    /\ UNCHANGED <<frame_idx, frame_buffer, terminate_requested, fbmem, fb_mapped>>
    /\ UNCHANGED sleep_req

\* the branch of the display mode: readable says whether the input (and the
\* background image) can be opened and converted
HandleMode ==
    /\ pc = "gen_mode"
    /\ \E readable \in BOOLEAN :
         LET r == ParseArgs(argv)
             image_modes == {MODE_ANIM_IMAGE_CENTER, MODE_ANIM_IMAGE_FULL}
         IN  IF DISPLAY_MODE \in image_modes /\ r.bg_image_path = NUL
             THEN /\ stderr' = Append(stderr, "Error: Mode 1/2 requires background image (-b)")
                  /\ exit_status' = 1
                  /\ UNCHANGED stdout
             ELSE IF ~readable
             THEN /\ stderr' = Append(stderr, "Error: Failed to load")
                  /\ exit_status' = 1
                  /\ UNCHANGED stdout
             ELSE /\ stderr' = Append(stderr, "Total compressed")
                  /\ stdout' = stdout \o <<"#define NFRAMES", "#define COMPRESS_METHOD",
                                           "frame data">>
                  /\ exit_status' = 0
    /\ pc' = "gen_exited"
    /\ UNCHANGED <<argv, cmdline, rvars, xvars>>
    /\ UNCHANGED <<cvars, bvars, hvars, svars>>
    /\ UNCHANGED <<frame_idx, frame_buffer, terminate_requested, fbmem, fb_mapped>>
    /\ UNCHANGED sleep_req

\* command lines of the model: up to MaxArgs groups after the program name
MaxArgs == 3
ArgGroups ==
    {<<"-z", "zip">>, <<"-z", "auto">>, <<"-z">>, <<"-m", "1">>, <<"-m", "3">>,
     <<"-b", "bg.png">>, <<"-h">>, <<"-q">>, <<"in">>}

RECURSIVE ArgLists(_)
ArgLists(n) ==
    IF n = 0 THEN {<<"generate_splash">>}
    ELSE LET shorter == ArgLists(n - 1)
         IN  shorter \cup {a \o g : a \in shorter, g \in ArgGroups}

GenInit ==
    /\ CodecIdle /\ palette = <<>> /\ num_colors = 0
    /\ sink = "none" /\ DISPLAY_MODE = 0 /\ LOOP = 0 /\ NFRAMES = 0
    /\ COMPRESS_METHOD = 0 /\ src_frames = <<>> /\ frames = <<>>
    /\ frame_sizes = <<>> /\ bits_per_pixel = 0
    /\ pos_x = 0 /\ pos_y = 0
    /\ frame_pixels = 0 /\ test_sizes = <<>>
    /\ pc = "gen_start" /\ frame_idx = 0 /\ frame_buffer = <<>>
    /\ terminate_requested = 0 /\ fbmem = <<>> /\ fb_mapped = FALSE
    /\ sleep_req = 0
    /\ ticks = 0 /\ last_presented = -1
    /\ blits_after_term = 0 /\ decodes_after_term = 0
    /\ cmdline = <<>> /\ exit_status = -1
    /\ elapsed = 0 /\ sleep_ms_arg = 0 /\ slept = 0
    /\ argv \in ArgLists(MaxArgs)
    /\ stdout = <<>> /\ stderr = <<>>
    /\ NothingHeld
    /\ SidesIdle

GenNext ==
    \/ ParseArguments
    \/ Preamble
    \/ HandleMode

SpecGen == GenInit /\ [][GenNext]_vars

\* the words rle_xor, rle_direct, sparse, raw, auto
MethodNames == {"rle_xor", "rle_direct", "sparse", "raw", "auto"}

\* C21: when the first option is -z with a word that names no method, or is
\* -m 1 or -m 2 and no background image is given anywhere on the command
\* line, and help is not asked for, the tool ends with a message on the
\* diagnostic stream, a non-zero status and nothing written to the standard
\* output stream.
C21_ConfigErrorsSilent ==
    (/\ pc = "gen_exited"
     /\ Len(argv) >= 3
     /\ \A i \in 4..Len(argv) : argv[i] # "-h"
     /\ \/ argv[2] = "-z" /\ argv[3] \notin MethodNames
        \/ /\ argv[2] = "-m" /\ argv[3] \in {"1", "2"}
           /\ \A i \in 4..Len(argv) : argv[i] \notin {"-b", "-m", "-q"})
    => (stderr # <<>> /\ exit_status # 0 /\ stdout = <<>>)

----------------------------------------------------------------------------
(* Playback engine: main from the signal handlers to the mapped surface *)

MAP_FAILED == -1

\* a valid address
MappedAddr == 4096

\* errno values of a failed mmap
MmapErrnos == {1, 12}

\* what mmap returns: the C library returns MAP_FAILED on failure, the mmap
\* of nolibc.h returns the value of the system call, which is -errno
MmapResults(s) ==
    IF s = "fb"
    THEN {MappedAddr} \cup {0 - e : e \in MmapErrnos}
    ELSE {MappedAddr, MAP_FAILED}

\* the engine leaves main with status 1, holding h
AcquireFails(h) ==
    /\ pc' = "failed"
    /\ exit_status' = 1
    /\ held' = h

\* a store through a pointer that is no mapping
AcquireFaults ==
    /\ pc' = "faulted"
    /\ UNCHANGED <<exit_status, held>>

AcquireFrame ==
    /\ UNCHANGED <<cvars, bvars, hvars, svars>>
    /\ UNCHANGED <<frame_idx, frame_buffer, terminate_requested, fbmem, fb_mapped>>
    /\ UNCHANGED <<sleep_req, cmdline, argv, stdout, xvars>>

\* drm_init: the device, the dumb buffer, its mapping and the mode, or none
DrmInit ==
    /\ sink = "drm" /\ pc = "drm_init"
    /\ \E ret \in {0, -1} :
         IF ret < 0
         THEN /\ stderr' = Append(stderr, "DRM: Init failed")
              /\ AcquireFails(held)
         ELSE /\ pc' = "alloc_frame"
              /\ held' = held \cup {"drm"}
              /\ UNCHANGED <<exit_status, stderr>>
    /\ UNCHANGED mmap_ret
    /\ AcquireFrame

\* frame_buffer = mmap(...); if (frame_buffer == MAP_FAILED) ...
AllocFrameBuffer ==
    /\ pc = "alloc_frame"
    /\ \E r \in MmapResults(sink) :
         /\ mmap_ret' = [mmap_ret EXCEPT !["frame_buffer"] = r]
         /\ IF r = MAP_FAILED
            THEN IF sink = "fb"
                 THEN AcquireFails(held) /\ UNCHANGED stderr
                 ELSE /\ stderr' = Append(stderr, "DRM: No memory")
                      /\ AcquireFails(held \ {"drm"})
            ELSE /\ pc' = IF HasBackground THEN "alloc_bg"
                          ELSE IF sink = "fb" THEN "load" ELSE "acquired"
                 /\ held' = IF r = MappedAddr THEN held \cup {"frame_buffer"} ELSE held
                 /\ UNCHANGED <<exit_status, stderr>>
    /\ AcquireFrame

\* bg_buffer = mmap(...); if (bg_buffer == MAP_FAILED) ...; the background
\* is then decoded into bg_buffer
AllocBgBuffer ==
    /\ pc = "alloc_bg"
    /\ \E r \in MmapResults(sink) :
         /\ mmap_ret' = [mmap_ret EXCEPT !["bg_buffer"] = r]
         /\ IF r = MAP_FAILED
            THEN IF sink = "fb"
                 THEN AcquireFails(held)
                 ELSE AcquireFails(held \ {"frame_buffer", "drm"})
            ELSE IF r # MappedAddr
            THEN AcquireFaults
            ELSE /\ pc' = IF sink = "fb" THEN "load" ELSE "acquired"
                 /\ held' = held \cup {"bg_buffer"}
                 /\ UNCHANGED exit_status
    /\ UNCHANGED stderr
    /\ AcquireFrame

\* framebuffer engine: the first frame is decoded into frame_buffer
LoadInitial ==
    /\ sink = "fb" /\ pc = "load"
    /\ IF mmap_ret["frame_buffer"] # MappedAddr
       THEN AcquireFaults
       ELSE pc' = "open" /\ UNCHANGED <<exit_status, held>>
    /\ UNCHANGED <<stderr, mmap_ret>>
    /\ AcquireFrame

\* fb_fd = open("/dev/fb0", O_RDWR, 0); if (fb_fd < 0) return 1;
OpenFb ==
    /\ sink = "fb" /\ pc = "open"
    /\ \E fb_fd \in {3, -2} :
         IF fb_fd < 0
         THEN AcquireFails(held)
         ELSE pc' = "query" /\ held' = held \cup {"fb_fd"} /\ UNCHANGED exit_status
    /\ UNCHANGED <<stderr, mmap_ret>>
    /\ AcquireFrame

\* the two ioctl calls; on failure close(fb_fd) and return 1
QueryFb ==
    /\ sink = "fb" /\ pc = "query"
    /\ \E ret \in {0, -22} :
         IF ret < 0
         THEN AcquireFails(held \ {"fb_fd"})
         ELSE pc' = "map" /\ UNCHANGED <<exit_status, held>>
    /\ UNCHANGED <<stderr, mmap_ret>>
    /\ AcquireFrame

\* fbmem = mmap(...); on MAP_FAILED close(fb_fd) and return 1; the surface
\* is then filled or drawn
MapFb ==
    /\ sink = "fb" /\ pc = "map"
    /\ \E r \in MmapResults(sink) :
         /\ mmap_ret' = [mmap_ret EXCEPT !["fbmem"] = r]
         /\ IF r = MAP_FAILED
            THEN AcquireFails(held \ {"fb_fd"})
            ELSE IF r # MappedAddr
            THEN AcquireFaults
            ELSE pc' = "acquired" /\ held' = held \cup {"fbmem"} /\ UNCHANGED exit_status
    /\ UNCHANGED stderr
    /\ AcquireFrame

\* every build of the two engines, before the first acquisition
AcquireInit ==
    /\ CodecIdle /\ palette = <<>> /\ num_colors = 0
    /\ sink \in {"fb", "drm"}
    /\ DISPLAY_MODE \in 0..4
    /\ bits_per_pixel \in (IF sink = "fb" THEN {16, 24, 32} ELSE {32})
    /\ LOOP = 1 /\ NFRAMES = 1
    /\ COMPRESS_METHOD = 0 /\ src_frames = <<>> /\ frames = <<>>
    /\ frame_sizes = <<>>
    /\ pos_x = 0 /\ pos_y = 0
    /\ frame_pixels = 0 /\ test_sizes = <<>>
    /\ pc = (IF sink = "drm" THEN "drm_init" ELSE "alloc_frame")
    /\ frame_idx = 0 /\ frame_buffer = <<>>
    /\ terminate_requested = 0 /\ fbmem = <<>> /\ fb_mapped = FALSE
    /\ sleep_req = 0
    /\ ticks = 0 /\ last_presented = -1
    /\ blits_after_term = 0 /\ decodes_after_term = 0
    /\ cmdline = <<>> /\ exit_status = -1
    /\ ToolsIdle
    /\ elapsed = 0 /\ sleep_ms_arg = 0 /\ slept = 0

AcquireNext ==
    \/ DrmInit
    \/ AllocFrameBuffer
    \/ AllocBgBuffer
    \/ LoadInitial
    \/ OpenFb
    \/ QueryFb
    \/ MapFb

SpecAcquire == AcquireInit /\ [][AcquireNext]_vars

\* C22: when an acquisition of the engine's startup has failed, main has
\* returned a non-zero status and the process holds no mapping and no
\* descriptor.
C22_AcquireFailureReleases ==
    pc \in {"failed", "faulted"} =>
        (pc = "failed" /\ exit_status # 0 /\ held = {})

----------------------------------------------------------------------------
(* apply_delta of the two engines on the same unit and the same pixel buffer *)

\* the method identifier of frames_delta.h for each encoder
MethodId(o) ==
    IF o = "rle_xor" THEN COMPRESS_RLE_XOR
    ELSE IF o = "rle_direct" THEN COMPRESS_RLE_DIRECT
    ELSE IF o = "sparse" THEN COMPRESS_SPARSE
    ELSE COMPRESS_RAW

SidesInit ==
    /\ op \in {"rle_xor", "rle_direct", "sparse", "raw"}
    /\ cpc = "input"
    /\ \E fp \in Inputs("rle_xor") : curr = fp[1] /\ prev = fp[2]
    /\ out = <<>>
    /\ out_len = 0
    /\ palette = <<>>
    /\ num_colors = 0
    /\ indices = <<>>
    /\ dec = <<>>
    /\ EngineIdle

\* the generator writes the unit of frame 1 that follows frame 0 = prev
EncodeUnit ==
    /\ cpc = "input"
    /\ out' = EmitUnit(MethodId(op), <<prev, curr>>, 1, Len(curr))
    /\ out_len' = Len(out')
    /\ cpc' = "encoded"
    /\ UNCHANGED <<op, curr, prev, palette, num_colors, indices, dec>>
    /\ UNCHANGED <<bvars, evars, hvars, kvars, svars>>

\* apply_delta of splash_anim_delta.c on a pixel buffer holding prev
ApplyDeltaFb ==
    /\ cpc = "encoded" /\ dec = <<>>
    /\ dec' = apply_delta(MethodId(op), out, out_len, Len(prev), prev)
    /\ UNCHANGED <<op, cpc, curr, prev, out, out_len, palette, num_colors, indices>>
    /\ UNCHANGED <<bvars, evars, hvars, kvars, svars>>

\* apply_delta of splash_anim_drm.c on a pixel buffer holding prev
ApplyDeltaDrm ==
    /\ cpc = "encoded" /\ dec_drm = <<>>
    /\ dec_drm' = drm_apply_delta(MethodId(op), out, out_len, Len(prev), prev)
    /\ UNCHANGED <<cmdline, exit_status, argv, stdout, stderr, rvars>>
    /\ UNCHANGED <<rgb_off, bg_buffer>>
    /\ UNCHANGED <<cvars, bvars, evars, hvars, svars>>

SidesNext ==
    \/ EncodeUnit
    \/ ApplyDeltaFb
    \/ ApplyDeltaDrm

SpecSides == SidesInit /\ [][SidesNext]_vars

\* C23: after both engines applied the unit the matching encoder produced to
\* the same pixel buffer, the two pixel buffers are equal, for each of the
\* methods 0, 1, 2 and 3.
C23_SinksDecodeAlike ==
    (cpc = "encoded" /\ dec # <<>> /\ dec_drm # <<>>) => dec = dec_drm

----------------------------------------------------------------------------
(* The two palette decoders side by side *)

\* the two palette decoders on the same stream, palette and destination
PalSidesInit ==
    /\ op = "palette"
    /\ cpc = "input"
    /\ \E fp \in Inputs("palette") : curr = fp[1] /\ prev = fp[2]
    /\ out = <<>>
    /\ out_len = 0
    /\ palette = <<>>
    /\ num_colors = 0
    /\ indices = <<>>
    /\ dec = <<>>
    /\ EngineIdle

\* decompress_palette_lzss of splash_anim_drm.c
DecodePaletteDrm ==
    /\ op = "palette" /\ cpc \in {"encoded", "decoded"} /\ dec_drm = <<>>
    /\ dec_drm' = drm_decompress_palette_lzss(out, out_len, palette, num_colors,
                                              prev, Len(curr))
    /\ UNCHANGED <<cmdline, exit_status, argv, stdout, stderr, rvars>>
    /\ UNCHANGED <<rgb_off, bg_buffer>>
    /\ UNCHANGED <<cvars, bvars, evars, hvars, svars>>

PalSidesNext ==
    \/ EncodePalette
    \/ DecodePalette
    \/ DecodePaletteDrm

SpecPalSides == PalSidesInit /\ [][PalSidesNext]_vars

\* C24: after both engines decoded the stream compress_lzss produced, with the
\* same palette, into destination buffers of the same pixel count, the two
\* buffers hold the same pixels.
C24_SinksDecodePaletteAlike ==
    (op = "palette" /\ cpc = "decoded" /\ dec_drm # <<>>) => dec = dec_drm

----------------------------------------------------------------------------
(* blit_to_fb_32bpp on one row: the vector lanes and the scalar tail *)

\* runs of consecutive pixel values: all-vector runs of 8 over every value,
\* all-tail runs of 7 over every value, and mixed runs at both ends of the
\* value range
RunStarts(count) ==
    IF count = 8 THEN {8 * k : k \in 0..8191}
    ELSE IF count = 7 THEN {7 * k : k \in 0..9362}
    ELSE {0, 2016, 65520}

RunLens == {1, 7, 8, 9, 15, 16, 17}

Layouts == {<<16, 8, 0>>, <<0, 8, 16>>}

ExpandInit ==
    /\ op = "expand"
    /\ cpc = "input"
    /\ \E count \in RunLens : \E start \in RunStarts(count) :
          curr = [i \in 1..count |-> (start + i - 1) % 65536]
    /\ prev = <<>>
    /\ out = <<>>
    /\ out_len = 0
    /\ palette = <<>>
    /\ num_colors = 0
    /\ indices = <<>>
    /\ dec = <<>>
    /\ EngineStill
    /\ argv = <<>> /\ stdout = <<>> /\ stderr = <<>>
    /\ NothingHeld
    /\ dec_drm = <<>>
    /\ bg_buffer = <<>>
    /\ rgb_off \in Layouts

\* blit_to_fb_32bpp of the run onto a surface of one row of the same width
ExpandRun ==
    /\ op = "expand" /\ cpc = "input"
    /\ LET count == Len(curr)
           mem == [o \in 0..(4 * count - 1) |-> 170]
       IN  fbmem' = blit_to_fb_32bpp(mem, count, 1, 4 * count, curr, count, 1, 0, 0,
                                     rgb_off[1], rgb_off[2], rgb_off[3])
    /\ cpc' = "expanded"
    /\ UNCHANGED <<op, curr, prev, out, out_len, palette, num_colors, indices, dec>>
    /\ UNCHANGED <<pc, frame_idx, frame_buffer, terminate_requested, fb_mapped>>
    /\ UNCHANGED <<sleep_req, bvars, hvars, kvars, svars>>

ExpandNext == ExpandRun

SpecExpand == ExpandInit /\ [][ExpandNext]_vars

\* the 32-bit word of the scalar formula, its three fields added up
ScalarWord(pixel, offs) ==
    ((pixel \div 2048) % 32) * 8 * (2 ^ offs[1])
    + ((pixel \div 32) % 64) * 4 * (2 ^ offs[2])
    + (pixel % 32) * 8 * (2 ^ offs[3])

\* C25: for the channel offsets {16,8,0} and {0,8,16}, every pixel of a run
\* of any length, whether converted in a vector lane or by the scalar tail,
\* is written as the word the scalar formula gives for these offsets.
C25_FastPathMatchesScalar ==
    (op = "expand" /\ cpc = "expanded") =>
        \A i \in 1..Len(curr) : \A k \in 0..3 :
            fbmem[4 * (i - 1) + k] = (ScalarWord(curr[i], rgb_off) \div (256 ^ k)) % 256

\* a run of 17 pixels, two vector groups and one tail pixel, has been written
\* in the layout {0,8,16}
C25_Witness ==
    /\ op = "expand" /\ cpc = "expanded"
    /\ Len(curr) = 17
    /\ rgb_off = <<0, 8, 16>>
    /\ curr[17] = 2032
    /\ fbmem[64] = 0 /\ fbmem[65] = 252 /\ fbmem[66] = 128 /\ fbmem[67] = 0

----------------------------------------------------------------------------
(* The engines in the background image modes *)

\* background images: blue with one green pixel, and six different values
BgImages ==
    {[i \in 1..(BG_W * BG_H) |-> IF i = k THEN 2016 ELSE 31] : k \in {1, BG_W * BG_H}}
    \cup {[i \in 1..(BG_W * BG_H) |-> 2113 * i]}

\* positions of the frame: inside the surface, over its right edge, and over
\* its left edge on the last row
BgPositions == {<<0, 0>>, <<XRES - 1, YRES - 1>>, <<-1, YRES - 1>>}

BgInit ==
    /\ op = "none" /\ cpc = "idle"
    /\ curr \in BgImages
    /\ prev = <<>> /\ dec = <<>>
    /\ LET bp == build_palette(curr, BG_W * BG_H)
       IN  /\ palette = bp.palette
           /\ num_colors = bp.num_colors
           /\ indices = bp.indices
           /\ out = compress_lzss(bp.indices, BG_W * BG_H)
    /\ out_len = Len(out)
    /\ sink \in {"fb", "drm"}
    /\ bits_per_pixel \in (IF sink = "fb" THEN {16, 32} ELSE {32})
    /\ DISPLAY_MODE \in {1, 2}
    /\ NFRAMES = 2 /\ LOOP = 1 /\ COMPRESS_METHOD = 0
    /\ src_frames \in {<<f, g>> : f \in PlayFrames, g \in PlayFrames}
    /\ frames = FrameTable(COMPRESS_METHOD, src_frames, NFRAMES)
    /\ frame_sizes = [f \in 1..NFRAMES |-> Len(frames[f])]
    /\ \E xy \in BgPositions : pos_x = xy[1] /\ pos_y = xy[2]
    /\ frame_pixels = MaxPixels
    /\ test_sizes = <<>>
    /\ pc = "start"
    /\ frame_idx = 0
    /\ frame_buffer = <<>>
    /\ terminate_requested = 0
    /\ \E b \in ScreenBytes : fbmem = [o \in 0..(FbSize(bits_per_pixel) - 1) |-> b]
    /\ fb_mapped = FALSE
    /\ sleep_req = 0
    /\ ticks = 0 /\ last_presented = -1
    /\ blits_after_term = 0 /\ decodes_after_term = 0
    /\ cmdline = <<"q">> /\ exit_status = -1
    /\ ToolsIdle
    /\ elapsed = 0 /\ sleep_ms_arg = 0 /\ slept = 0

BgNext ==
    \/ Startup
    \/ LoopCheck
    \/ Blit
    \/ TermCheck
    \/ Advance
    \/ WrapCheck
    \/ Decode
    \/ Pace
    \/ NanosleepDone
    \/ Cleanup
    \/ Release
    \/ Signal

SpecBg == BgInit /\ [][BgNext]_vars

\* byte k of the surface pixel in column c of row r
SurfaceByte(c, r, k) == fbmem[r * LineLength(bits_per_pixel) + c * (bits_per_pixel \div 8) + k]

\* C26: on the DRM sink, when the loop is entered, the surface pixel in
\* column c of row r shows the pixel in column c of row r of the decoded
\* background image, whose rows are BG_W pixels long.
C26_DrmBackgroundShown ==
    (/\ sink = "drm" /\ HasBackground
     /\ pc = "loop_check" /\ last_presented = -1)
    => \A r \in 0..(BG_H - 1) : \A c \in 0..(BG_W - 1) : \A k \in 0..3 :
          (r < YRES /\ c < XRES) =>
              SurfaceByte(c, r, k)
                = (ScalarWord(At(bg_buffer, r * BG_W + c), <<16, 8, 0>>) \div (256 ^ k)) % 256

\* byte o of the surface lies in the clipped footprint of the frame
InFootprint(o) ==
    LET r == o \div LineLength(bits_per_pixel)
        c == (o % LineLength(bits_per_pixel)) \div (bits_per_pixel \div 8)
    IN  /\ pos_y <= r /\ r < pos_y + FRAME_H /\ r < YRES
        /\ pos_x <= c /\ c < pos_x + FRAME_W /\ c < XRES

\* C29: in the background image modes, no step of main between the entry of
\* the loop and the final clear changes a byte of the surface outside the
\* clipped footprint of the frame.
C29_BackgroundKept ==
    [][(HasBackground /\ pc \notin {"start", "cleanup"}) =>
          \A o \in DOMAIN fbmem : ~InFootprint(o) => fbmem'[o] = fbmem[o]]_vars

----------------------------------------------------------------------------
(* The order of the tokens compress_rle_xor writes *)

\* the tokens of a Delta RLE unit from position p (1-based) on, up to its
\* closing 0x00: for each the kind and the number of pixels it covers
RECURSIVE XorTokens(_, _)
XorTokens(unit, p) ==
    IF p > Len(unit) \/ unit[p] = 0 THEN <<>>
    ELSE IF unit[p] >= 128
    THEN <<[skip |-> TRUE, n |-> unit[p] - 127]>> \o XorTokens(unit, p + 1)
    ELSE <<[skip |-> FALSE, n |-> unit[p]]>> \o XorTokens(unit, p + 1 + 2 * unit[p])

\* C27 as stated: in every output of compress_rle_xor a skip token is never
\* followed by a skip token and a literal token never by a literal token,
\* also for unchanged runs of more than 128 and changed runs of more than
\* 127 pixels.
C27_TokensAlternate ==
    (op = "rle_xor" /\ cpc = "encoded") =>
        LET toks == XorTokens(out, 1)
        IN  \A k \in 1..(Len(toks) - 1) : toks[k].skip # toks[k + 1].skip

\* C27: in every output of compress_rle_xor two tokens of the same kind are
\* adjacent only where a run was cut at its cap: a skip token follows a skip
\* token only if the first covers 128 pixels, a literal token follows a
\* literal token only if the first holds 127 values; everywhere else skip
\* and literal tokens alternate.
C27_AlternateBelowCap ==
    (op = "rle_xor" /\ cpc = "encoded") =>
        LET toks == XorTokens(out, 1)
        IN  \A k \in 1..(Len(toks) - 1) :
                toks[k].skip = toks[k + 1].skip =>
                    toks[k].n = IF toks[k].skip THEN RLE_XOR_MAX_SKIP
                                                ELSE RLE_XOR_MAX_LITERAL

\* an unchanged frame of LongLen pixels was encoded: a skip of 128, then a
\* skip of the rest
C27_Witness ==
    /\ op = "rle_xor" /\ cpc = "encoded"
    /\ Len(curr) = LongLen /\ curr = prev
    /\ out = <<255, 128 + (LongLen - RLE_XOR_MAX_SKIP) - 1, 0>>

----------------------------------------------------------------------------
(* The tokens compress_rle_direct writes *)

\* images for the Direct RLE encoder: every image of 1..DirectLen pixels, the
\* run-structured long frames, and long frames of a repeating pattern (a b a b
\* or a a b b) with a run of a from k1 + 1 to k2
DirectLen == 5
PatternFrame(a, b, period, k1, k2) ==
    [i \in 1..LongLen |->
        IF i > k1 /\ i <= k2 THEN a
        ELSE IF ((i - 1) \div period) % 2 = 0 THEN a ELSE b]
PatternFrames ==
    {PatternFrame(a, b, period, k1, k2) :
        a \in LongVals, b \in LongVals, period \in {1, 2},
        k1 \in BreakPoints, k2 \in BreakPoints}
DirectFrames ==
    (UNION {ShortFrames(n) : n \in 1..DirectLen}) \cup LongFrames \cup PatternFrames

DirectInit ==
    /\ op = "rle_direct"
    /\ cpc = "input"
    /\ curr \in DirectFrames
    /\ prev = ZeroFrame(Len(curr))
    /\ out = <<>>
    /\ out_len = 0
    /\ palette = <<>>
    /\ num_colors = 0
    /\ indices = <<>>
    /\ dec = <<>>
    /\ EngineIdle

DirectNext ==
    \/ EncodeRleDirect
    \/ DecodeRleDirect

SpecDirect == DirectInit /\ [][DirectNext]_vars

\* the tokens of a Direct RLE unit from position p (1-based) on, `covered`
\* pixels of the image before them: a repeat token counts 3..127 and the
\* pixels it covers all have its value, a literal token counts 1..127, its
\* payload is the pixels it covers and no three of them in a row are equal,
\* and the unit ends with its only token byte 0x00 when the whole image is
\* covered
RECURSIVE DirectTokensLegal(_, _, _, _)
DirectTokensLegal(unit, p, covered, image) ==
    IF p > Len(unit) THEN FALSE
    ELSE IF unit[p] = 0 THEN p = Len(unit) /\ covered = Len(image)
    ELSE IF unit[p] >= 128
    THEN LET n == unit[p] - 128
         IN  /\ n \in 3..127
             /\ p + 2 <= Len(unit)
             /\ covered + n <= Len(image)
             /\ \A j \in 1..n :
                   image[covered + j] = unit[p + 1] + 256 * unit[p + 2]
             /\ DirectTokensLegal(unit, p + 3, covered + n, image)
    ELSE LET n == unit[p]
         IN  /\ n \in 1..127
             /\ p + 2 * n <= Len(unit)
             /\ covered + n <= Len(image)
             /\ \A j \in 1..n :
                   image[covered + j] = unit[p + 2 * j - 1] + 256 * unit[p + 2 * j]
             /\ \A j \in 1..(n - 2) :
                   ~(/\ image[covered + j] = image[covered + j + 1]
                     /\ image[covered + j + 1] = image[covered + j + 2])
             /\ DirectTokensLegal(unit, p + 1 + 2 * n, covered + n, image)

\* C28: in every output of compress_rle_direct each repeat token has a count
\* in 3..127 and covers only pixels of its value, each literal token has a
\* count in 1..127, the counts sum to count, the output ends with the one
\* terminator byte 0x00, and no literal payload holds three equal pixel
\* values in a row.
C28_DirectTokensLegal ==
    (op = "rle_direct" /\ cpc \in {"encoded", "decoded"}) =>
        /\ out_len = Len(out)
        /\ DirectTokensLegal(out, 1, 0, curr)

\* the image a b a b ... of LongLen pixels was encoded: a literal of 127
\* values, then a literal of the rest, then the terminator
C28_Witness ==
    /\ op = "rle_direct" /\ cpc = "encoded"
    /\ Len(curr) = LongLen
    /\ curr[1] # curr[2]
    /\ out[1] = 127
    /\ out[2 * 127 + 2] = LongLen - 127
    /\ out_len = 2 * LongLen + 3
    /\ out[out_len] = 0

----------------------------------------------------------------------------
(* build_palette on images the palette can hold *)

\* every image of 1..MaxLen pixels, and images of `values` values, first,
\* first + 1, ..., once through or with the first four of them again
FewValues == {1, 2, PALETTE_MAX - 1, PALETTE_MAX}
FewImages ==
    (UNION {ShortFrames(n) : n \in 1..MaxLen})
    \cup {WideImage(values + more, values, first) :
              values \in FewValues, more \in {0, 4}, first \in FirstValues}

IndexedInit ==
    /\ op = "palette_idx"
    /\ cpc = "input"
    /\ curr \in FewImages
    /\ prev = ZeroFrame(Len(curr))
    /\ out = <<>>
    /\ out_len = 0
    /\ palette = <<>>
    /\ num_colors = 0
    /\ indices = <<>>
    /\ dec = <<>>
    /\ EngineIdle

IndexedNext ==
    \/ BuildPalette
    \/ ExpandLiterals

SpecIndexed == IndexedInit /\ [][IndexedNext]_vars

\* C30: for an image of at most 256 values build_palette returns the number
\* of its values, the palette entries below that number are pairwise
\* distinct and in order of first appearance, and every pixel equals the
\* palette entry of its index.
C30_PaletteLossless ==
    (op = "palette_idx" /\ cpc \in {"built", "decoded"}) =>
        LET seen == FirstSeen(curr)
        IN  Len(seen) <= PALETTE_MAX =>
              /\ num_colors = Len(seen)
              /\ Len(palette) = num_colors
              /\ \A j \in 1..num_colors : \A k \in 1..num_colors :
                    palette[j] = palette[k] => j = k
              /\ palette = seen
              /\ Len(indices) = Len(curr)
              /\ \A i \in 1..Len(curr) :
                    /\ indices[i] \in 0..(num_colors - 1)
                    /\ palette[indices[i] + 1] = curr[i]

\* an image of exactly 256 values and four pixels more was indexed: the
\* 256th pixel has index 255, the last one the index of the fourth value
C30_Witness ==
    /\ op = "palette_idx" /\ cpc = "built"
    /\ Len(curr) = PALETTE_MAX + 4
    /\ num_colors = PALETTE_MAX
    /\ indices[PALETTE_MAX] = PALETTE_MAX - 1
    /\ palette[PALETTE_MAX] = curr[PALETTE_MAX]
    /\ indices[PALETTE_MAX + 4] = 3
    /\ curr[PALETTE_MAX + 4] = curr[4]

====
